---- MODULE Spec2Model ----
(***************************************************************************)
(* Tick-driven transaction submission and confirmation (multivm-agave).    *)
(*                                                                         *)
(*   SpecRetry / FairSpecRetry : send_and_confirm_transaction_with_driver  *)
(*       (validator/src/bridge/util.rs) run by one caller, with either the *)
(*       in-process or the cross-process TickDriver.                       *)
(*   SpecTick : concurrent callers of LocalTickClient::trigger_tick and of *)
(*       the control server's engine_tick handler on the shared channels.  *)
(***************************************************************************)
EXTENDS Integers, Sequences, FiniteSets, TLC

(* ------------------------------ bounds --------------------------------- *)

\* largest max_retries argument explored
MaxRetries == 3
\* longest auth secret string explored
MaxSecretLen == 2
\* trigger_tick calls each free-running caller may start
MaxCalls == 2

\* transactions of one batch
MaxBatch == 3

\* the confirmation deadline, in sleeps of the polling loop
ConfirmTimeout == 2

\* request frames a client writes on one connection
MaxFrames == 2

\* transactions of one BatchTransactions request
MaxIpcBatch == 2

\* the server's cap on a frame's declared length, 10 MiB, in scaled bytes
FrameCap == 8

\* characters of a Response's message
MaxText == 13

\* bytes of one serialized transaction or keypair, and keypairs of a request
MaxBlob == 2

\* calls of IpcServer::start on one instance
MaxStarts == 1

\* lamports of a transfer
MaxAmount == 2

\* calls of send_and_confirm_transaction on one RpcClient
MaxAuthCalls == 2

\* the latest unix time reached
MaxClock == 2

(* --------------------------- input domains ----------------------------- *)

\* signatures the authenticated submission call may hand back
Sigs == {"sigA", "sigB"}

\* characters of an auth secret: two hex digits and one character that is not
SecretChars == {"0", "f", "g"}

RECURSIVE StringsUpTo(_)
StringsUpTo(n) ==
    IF n = 0 THEN {<<>>}
    ELSE LET shorter == StringsUpTo(n - 1)
         IN  shorter \cup {Append(s, c) : s \in {t \in shorter : Len(t) = n - 1},
                                          c \in SecretChars}

\* RpcClient::get_auth_token_secret(): None, or Some(string)
NoSecret == <<"None">>
SecretOptions == {NoSecret} \cup {<<"Some", s>> : s \in StringsUpTo(MaxSecretLen)}

\* SystemTime::now() relative to UNIX_EPOCH, in seconds; negative: before it
ClockValues == {-1, 7}

\* results of RpcClient::get_signature_status_with_commitment
StatusResults == {"SomeOk", "SomeErr", "None", "QueryErr"}

\* results of IpcClient::tick: Ok(true), Ok(false), Err(transport)
IpcTickResults == {"OkTrue", "OkFalse", "TransportErr"}

\* the TickDriver implementations
Drivers == {"local", "ipc"}

\* callers of the shared in-process channel pair: the retry loop, two threads
\* using LocalTickClient, one engine_tick request of the control server
LoopCaller == "loop"
LocalCallers == {"L1", "L2"}
EngineCallers == {"E1"}
FreeCallers == LocalCallers \cup EngineCallers
Callers == FreeCallers \cup {LoopCaller}

(* ------------------------------ state ---------------------------------- *)

VARIABLES
    \* --- send_and_confirm_transaction_with_driver ---
    driver,        \* which TickDriver the caller passed
    max_retries,   \* the max_retries argument
    secret,        \* rpc_client's auth token secret (Option<String>)
    pc,            \* position of the function
    attempt,       \* the for loop's variable
    signature,     \* the signature dispatch returned, "none" before
    jwt_token,     \* the minted token, a record, or <<>> before
    result,        \* the function's return value
    log,           \* history: the calls the function has issued, in order
    \* --- the shared tick channel pair ---
    installed,     \* LOCAL_TICK_CHANNELS is Some
    validatorUp,   \* the validator holds its ends of both channels
    reqQ,          \* tick request channel (payload (); the tag is history)
    doneQ,         \* tick completion channel (payload (); the tag is history)
    tickCount,     \* ledger ticks the validator has advanced
    tpc,           \* per caller: position inside trigger_tick / engine_tick
    calls,         \* per caller: calls started (history)
    served,        \* per caller: own requests the validator has processed
    returned,      \* per caller: calls that returned Ok / "ok" (history)
    lastDone,      \* per caller: whose request the completion its latest call
                   \* consumed was produced for, "none" while it has consumed
                   \* none (history)
    lockReaders,   \* callers holding a read guard of LOCAL_TICK_CHANNELS
    tickErr,       \* per caller: the error its last failed call returned
    installedInFlight, \* the latest step on the tick channels was a
                   \* set_local_tick_channels call that completed while a
                   \* trigger_tick was waiting for its completion
    ipcResps       \* results of IpcClient::tick so far, in order (history)

retryVars == <<driver, max_retries, secret, pc, attempt, signature, jwt_token,
               result, log>>
tickVars == <<installed, validatorUp, reqQ, doneQ, tickCount, tpc, calls,
              served, returned, lastDone, lockReaders, tickErr,
              installedInFlight, ipcResps>>

VARIABLES
    op,            \* the Bridge operation running: "batch", "transfer", "none"
    batch,         \* transactions: &mut [Transaction]
    signers,       \* signers: &[&Keypair], as the set of their keys
    bidx,          \* position of the loop in the batch, 0 before the first
    bpc,           \* position inside the operation
    elapsed,       \* now.elapsed() of the running confirm_transaction call
    polls,         \* statuses the running confirm_transaction call has seen
    cret,          \* what the latest confirm_transaction call returned
    bresult,       \* what the operation returned
    blog           \* calls the operation has issued, in order (history)

bridgeVars == <<op, batch, signers, bidx, bpc, elapsed, polls, cret, bresult,
                blog>>

VARIABLES
    conn,          \* the connection task: "open", "closed" once handle_client
                   \* has returned, "aborted" once it has panicked
    ipos,          \* position of handle_client: "read" or "processing"
    clientOpen,    \* the client's end of the stream is open
    pending,       \* frames the client has written and the server has not read
    framesSent,    \* frames the client has written
    reqCount,      \* frames the server has read to the end
    outbound,      \* Response frames written, each with the number of the
                   \* request it answers (history)
    msgLen,        \* handle_client: msg_len of the frame being read
    msgBuf,        \* handle_client: msg_buf, the payload read
    cpc,           \* the peer: "raw" writes frames of its own; else the
                   \* position of one IpcClient::send_batch_transactions call
    cresult        \* what send_batch_transactions returned

ipcVars == <<conn, ipos, clientOpen, pending, framesSent, reqCount, outbound,
             msgLen, msgBuf, cpc, cresult>>

VARIABLES
    frameMsg,      \* the IpcMessage value handed to the writer
    frameDir,      \* "to_server": IpcClient writes, handle_client reads;
                   \* "to_client": send_response writes, IpcClient reads
    wire,          \* bytes written to the stream and not yet read
    fpc,           \* position of the frame: at the writer, on the stream, at
                   \* one of the reader's steps
    declared,      \* the reader's msg_len / response_len
    body,          \* the reader's msg_buf / response_buf
    decoded        \* what the reader's bincode::deserialize returned

codecVars == <<frameMsg, frameDir, wire, fpc, declared, body, decoded>>

VARIABLES
    sockFile,      \* what is at the socket path: "absent", "stale" (a file
                   \* left by an earlier run), "dir" (an entry remove_file
                   \* cannot remove), or the instance whose bind created it
    srv,           \* per IpcServer instance: its position
    bound,         \* per instance: self.listener is Some
    found,         \* per instance: what its latest start found at the path
    starts,        \* per instance: calls of start (history)
    sockLast       \* the latest step on the path: operation, instance and
                   \* what was at the path before it (history)

sockVars == <<sockFile, srv, bound, found, starts, sockLast>>

VARIABLES
    xpc,           \* position: "create" / "parse" before the call, "parsed"
                   \* or "create_err" after
    args,          \* the arguments of create_transfer_with_evm_memo
    created,       \* what create_transfer_with_evm_memo returned
    txIn,          \* the transaction handed to parse_transfer_transaction
    parsed         \* what parse_transfer_transaction returned

xferVars == <<xpc, args, created, txIn, parsed>>

VARIABLES
    aclock,        \* SystemTime::now() as unix seconds, negative before the
                   \* epoch
    asecret,       \* rpc_client.get_auth_token_secret()
    apc,           \* position of the running call, "idle" between calls
    acall,         \* calls started (history)
    aentry,        \* the entry point called: with IPC or with local ticks
    aarg,          \* the jwt_secret argument of the running call
    atoken,        \* jwt_token of the running call
    amints,        \* tokens create_jwt_token has returned (history)
    lastMinted,    \* the token minted latest, by any call (history)
    submissions,   \* tokens handed to send_transaction_with_auto_token, each
                   \* with its call and the time it was handed over (history)
    aresult        \* what the latest call returned

authVars == <<aclock, asecret, apc, acall, aentry, aarg, atoken, amints,
              lastMinted, submissions, aresult>>

VARIABLES
    pktpc,                 \* "loop" inside deserialize_and_collect_packets,
                           \* "returned" after
    pktShape,              \* banking_batches still to iterate: the number
                           \* of packet batches of each
    packetBatchesLeft,     \* packet batches left in the banking batch at hand
    packet_stats,          \* PacketReceiverStats
    deserialized_packets,  \* the Vec being collected
    pktTotal,              \* packets in the batches iterated (history)
    pktDiscarded,          \* of these, packets marked discard (history)
    pktGood                \* of these, packets not marked discard that
                           \* deserialize and pass the filter (history)

pktVars == <<pktpc, pktShape, packetBatchesLeft, packet_stats,
             deserialized_packets, pktTotal, pktDiscarded, pktGood>>

VARIABLES
    epc,             \* position of the control server's handler
    emethod,         \* "method" of the request
    eparam,          \* params[0] of an engine_send_and_confirm_tx request
    ticks_per_slot,  \* Ctx.ticks_per_slot
    ephase,          \* the tick site the handler is at
    eleft,           \* send/recv pairs left at this site
    eattempt,        \* iterations of the polling loop completed
    edispatched,     \* send_transaction returned a signature
    estatus,         \* the transaction's status on the validator
    eSawRejected,    \* a status poll returned Ok(Some(Err(_))) (history)
    esends,          \* calls of tick_sender.send (history)
    esendOk,         \* of these, calls that returned Ok (history)
    edone,           \* completions the handler received (history)
    eanswer          \* the response body

engVars == <<epc, emethod, eparam, ticks_per_slot, ephase, eleft, eattempt,
             edispatched, estatus, eSawRejected, esends, esendOk, edone,
             eanswer>>

VARIABLES
    rwSecret,    \* rpc_client.get_auth_token_secret()
    rwNow,       \* SystemTime::now() as unix seconds
    rwTicks,     \* how the first, second, third and fourth tick goes
    rwRpc,       \* result of rpc_client.distribute_reward_to_account
    rwpc,        \* position of each of the two functions
    rwEvents,    \* ticks and RPC calls each function has issued (history)
    rwResult     \* what each function returned

rewVars == <<rwSecret, rwNow, rwTicks, rwRpc, rwpc, rwEvents, rwResult>>

VARIABLES
    tickIssuer,  \* somebody issues tick requests while the Bridge waits
    mpending,    \* the validator holds the transaction dispatched latest
    mstatus      \* the status of that transaction on the validator

manVars == <<tickIssuer, mpending, mstatus>>

lateVars == <<pktVars, engVars, rewVars, manVars>>

otherVars == <<codecVars, sockVars, xferVars, authVars, lateVars>>
restVars == <<bridgeVars, ipcVars, otherVars>>
vars == <<retryVars, tickVars, bridgeVars, ipcVars, otherVars>>

(* ---------------------- the shared tick channel pair -------------------- *)

\* crossbeam Sender::send on the request channel: Err once the validator has
\* dropped its receiver, else the unit is queued
ChanSend(q, up, tag) ==
    IF up THEN [ok |-> TRUE, q |-> Append(q, tag)]
          ELSE [ok |-> FALSE, q |-> q]

\* variant: a dropped sender goes unnoticed, an empty channel always blocks
RecvReady_NoDisconnect(q, up) ==
    IF q # <<>> THEN "msg" ELSE "block"

\* crossbeam Receiver::recv on the completion channel: a queued unit is taken;
\* an empty channel blocks while the validator holds its sender and gives
\* Err once that sender is dropped
RecvReady(q, up) ==
    IF q # <<>> THEN "msg"
    ELSE IF up THEN "block" ELSE "disconnected"

TickInit ==
    /\ installed = FALSE
    /\ validatorUp = TRUE
    /\ reqQ = <<>>
    /\ doneQ = <<>>
    /\ tickCount = 0
    /\ tpc = [c \in Callers |-> "idle"]
    /\ calls = [c \in Callers |-> 0]
    /\ served = [c \in Callers |-> 0]
    /\ returned = [c \in Callers |-> 0]
    /\ lastDone = [c \in Callers |-> "none"]
    /\ lockReaders = {}
    /\ tickErr = [c \in Callers |-> "none"]
    /\ installedInFlight = FALSE
    /\ ipcResps = <<>>

\* set_local_tick_channels: under the write lock, which waits for every read
\* guard to be dropped, the process-wide slot becomes Some(channels)
SetLocalTickChannels ==
    /\ lockReaders = {}
    /\ installed' = TRUE
    /\ installedInFlight' =
         (\E c \in LocalCallers \cup {LoopCaller} : tpc[c] = "sent")
    /\ UNCHANGED <<validatorUp, reqQ, doneQ, tickCount, tpc, calls, served,
                   returned, lastDone, lockReaders, tickErr, ipcResps>>

\* a thread enters LocalTickClient::trigger_tick, or the control server
\* starts handling an engine_tick request
TickCall(c) ==
    /\ c \in FreeCallers
    /\ tpc[c] \in {"idle", "ok", "err"}
    /\ calls[c] < MaxCalls
    /\ tpc' = [tpc EXCEPT ![c] = "called"]
    /\ calls' = [calls EXCEPT ![c] = @ + 1]
    /\ lastDone' = [lastDone EXCEPT ![c] = "none"]
    /\ installedInFlight' = FALSE
    /\ UNCHANGED <<installed, validatorUp, reqQ, doneQ, tickCount, served,
                   returned, lockReaders, tickErr, ipcResps>>

\* LocalTickClient::get_channels: LOCAL_TICK_CHANNELS.read().unwrap()
ReadLock(c) ==
    /\ c \in LocalCallers \cup {LoopCaller}
    /\ tpc[c] = "called"
    /\ tpc' = [tpc EXCEPT ![c] = "locked"]
    /\ lockReaders' = lockReaders \cup {c}
    /\ installedInFlight' = FALSE
    /\ UNCHANGED <<installed, validatorUp, reqQ, doneQ, tickCount, calls,
                   served, returned, lastDone, tickErr, ipcResps>>

\* variant: the read guard is returned with the channels and kept by the call
GetChannels_GuardKept(c) ==
    /\ c \in LocalCallers \cup {LoopCaller}
    /\ tpc[c] = "locked"
    /\ tpc' = [tpc EXCEPT ![c] = IF installed THEN "have" ELSE "err"]
    /\ tickErr' = [tickErr EXCEPT ![c] = IF installed THEN @ ELSE "not_initialized"]
    /\ installedInFlight' = FALSE
    /\ UNCHANGED <<installed, validatorUp, reqQ, doneQ, tickCount, calls,
                   served, returned, lastDone, lockReaders, ipcResps>>

\* variant: an empty slot yields default channels instead of an error
GetChannels_NoInitCheck(c) ==
    /\ c \in LocalCallers \cup {LoopCaller}
    /\ tpc[c] = "locked"
    /\ tpc' = [tpc EXCEPT ![c] = "have"]
    /\ lockReaders' = lockReaders \ {c}
    /\ installedInFlight' = FALSE
    /\ UNCHANGED <<installed, validatorUp, reqQ, doneQ, tickCount, calls,
                   served, returned, lastDone, tickErr, ipcResps>>

\* LocalTickClient::get_channels, under the read guard: Err("not initialized") on an empty slot,
\* else clones of the sender and the completion receiver
\* the guard is dropped when get_channels returns
GetChannels(c) ==
    /\ c \in LocalCallers \cup {LoopCaller}
    /\ tpc[c] = "locked"
    /\ tpc' = [tpc EXCEPT ![c] = IF installed THEN "have" ELSE "err"]
    /\ tickErr' = [tickErr EXCEPT ![c] = IF installed THEN @ ELSE "not_initialized"]
    /\ lockReaders' = lockReaders \ {c}
    /\ installedInFlight' = FALSE
    /\ UNCHANGED <<installed, validatorUp, reqQ, doneQ, tickCount, calls,
                   served, returned, lastDone, ipcResps>>

\* variant: the request unit is sent twice
TickSend_Twice(c) ==
    /\ c \in LocalCallers \cup {LoopCaller}
    /\ tpc[c] = "have"
    /\ LET s == ChanSend(reqQ, validatorUp, c)
       IN  /\ reqQ' = ChanSend(s.q, validatorUp, c).q
           /\ tpc' = [tpc EXCEPT ![c] = IF s.ok THEN "sent" ELSE "err"]
           /\ tickErr' = [tickErr EXCEPT ![c] = IF s.ok THEN @ ELSE "send"]
    /\ installedInFlight' = FALSE
    /\ UNCHANGED <<installed, validatorUp, doneQ, tickCount, calls, served,
                   returned, lastDone, lockReaders, ipcResps>>

\* trigger_tick: tx.send(())?
TickSend(c) ==
    /\ c \in LocalCallers \cup {LoopCaller}
    /\ tpc[c] = "have"
    /\ LET s == ChanSend(reqQ, validatorUp, c)
       IN  /\ reqQ' = s.q
           /\ tpc' = [tpc EXCEPT ![c] = IF s.ok THEN "sent" ELSE "err"]
           /\ tickErr' = [tickErr EXCEPT ![c] = IF s.ok THEN @ ELSE "send"]
    /\ installedInFlight' = FALSE
    /\ UNCHANGED <<installed, validatorUp, doneQ, tickCount, calls, served,
                   returned, lastDone, lockReaders, ipcResps>>

\* variant: the result of recv is dropped and the call returns Ok
TickRecv_ErrIgnored(c) ==
    /\ c \in LocalCallers \cup {LoopCaller}
    /\ tpc[c] = "sent"
    /\ LET r == RecvReady(doneQ, validatorUp)
       IN  /\ r # "block"
           /\ IF r = "msg"
              THEN /\ doneQ' = Tail(doneQ)
                   /\ lastDone' = [lastDone EXCEPT ![c] = Head(doneQ)]
              ELSE UNCHANGED <<doneQ, lastDone>>
    /\ returned' = [returned EXCEPT ![c] = @ + 1]
    /\ tpc' = [tpc EXCEPT ![c] = "ok"]
    /\ installedInFlight' = FALSE
    /\ UNCHANGED <<installed, validatorUp, reqQ, tickCount, calls, served,
                   lockReaders, tickErr, ipcResps>>

\* trigger_tick: rx.recv()?; Ok(())
TickRecv(c) ==
    /\ c \in LocalCallers \cup {LoopCaller}
    /\ tpc[c] = "sent"
    /\ LET r == RecvReady(doneQ, validatorUp)
       IN  /\ r # "block"
           /\ IF r = "msg"
              THEN /\ doneQ' = Tail(doneQ)
                   /\ lastDone' = [lastDone EXCEPT ![c] = Head(doneQ)]
                   /\ returned' = [returned EXCEPT ![c] = @ + 1]
                   /\ tpc' = [tpc EXCEPT ![c] = "ok"]
                   /\ UNCHANGED tickErr
              ELSE /\ tpc' = [tpc EXCEPT ![c] = "err"]
                   /\ tickErr' = [tickErr EXCEPT ![c] = "recv"]
                   /\ UNCHANGED <<doneQ, lastDone, returned>>
    /\ installedInFlight' = FALSE
    /\ UNCHANGED <<installed, validatorUp, reqQ, tickCount, calls, served,
                   lockReaders, ipcResps>>

\* engine_control handle, "engine_tick": let _ = ctx.tick_sender.send(())
EngineSend(c) ==
    /\ c \in EngineCallers
    /\ tpc[c] = "called"
    /\ reqQ' = ChanSend(reqQ, validatorUp, c).q
    /\ tpc' = [tpc EXCEPT ![c] = "sent"]
    /\ installedInFlight' = FALSE
    /\ UNCHANGED <<installed, validatorUp, doneQ, tickCount, calls, served,
                   returned, lastDone, lockReaders, tickErr, ipcResps>>

\* engine_control handle, "engine_tick": let _ = ctx.tick_done_receiver.recv()
\* and the "ok" response, whatever recv returned
EngineRecv(c) ==
    /\ c \in EngineCallers
    /\ tpc[c] = "sent"
    /\ LET r == RecvReady(doneQ, validatorUp)
       IN  /\ r # "block"
           /\ IF r = "msg"
              THEN /\ doneQ' = Tail(doneQ)
                   /\ lastDone' = [lastDone EXCEPT ![c] = Head(doneQ)]
              ELSE UNCHANGED <<doneQ, lastDone>>
    /\ returned' = [returned EXCEPT ![c] = @ + 1]
    /\ tpc' = [tpc EXCEPT ![c] = "ok"]
    /\ installedInFlight' = FALSE
    /\ UNCHANGED <<installed, validatorUp, reqQ, tickCount, calls, served,
                   lockReaders, tickErr, ipcResps>>

\* the validator's execution loop: take one request, advance one ledger tick,
\* acknowledge with one completion
ValidatorTick ==
    /\ validatorUp
    /\ reqQ # <<>>
    /\ reqQ' = Tail(reqQ)
    /\ tickCount' = tickCount + 1
    /\ doneQ' = Append(doneQ, Head(reqQ))
    /\ served' = [served EXCEPT ![Head(reqQ)] = @ + 1]
    /\ installedInFlight' = FALSE
    /\ UNCHANGED <<installed, validatorUp, tpc, calls, returned, lastDone,
                   lockReaders, tickErr, ipcResps>>

\* process teardown on the validator's side: its channel ends are dropped
ValidatorStop ==
    /\ validatorUp
    /\ validatorUp' = FALSE
    /\ installedInFlight' = FALSE
    /\ UNCHANGED <<installed, reqQ, doneQ, tickCount, tpc, calls, served,
                   returned, lastDone, lockReaders, tickErr, ipcResps>>

(* --------------- send_and_confirm_transaction_with_driver -------------- *)

\* seconds a minted token stays valid
TokenLifetime == 3600

HexDigits == {"0", "f"}
HexVal(c) == IF c = "f" THEN 15 ELSE 0

\* variant: the secret's characters are taken as the key bytes, unchecked
HexDecode_Unchecked(s) ==
    [ok |-> TRUE, bytes |-> [i \in 1..Len(s) |-> HexVal(s[i])]]

\* hex::decode: Err on an odd length or a character that is no hex digit,
\* else one byte per pair of digits
HexDecode(s) ==
    IF Len(s) % 2 # 0 \/ \E i \in 1..Len(s) : s[i] \notin HexDigits
    THEN [ok |-> FALSE, bytes |-> <<>>]
    ELSE [ok |-> TRUE,
          bytes |-> [i \in 1..(Len(s) \div 2) |->
                        16 * HexVal(s[2 * i - 1]) + HexVal(s[2 * i])]]

\* create_jwt_token: Err when the clock is before the epoch or the secret is
\* not hex, else the claims signed with the decoded key
CreateJwtToken(s, now) ==
    IF now < 0 THEN [ok |-> FALSE, iat |-> 0, exp |-> 0, key |-> <<>>]
    ELSE IF ~HexDecode(s).ok THEN [ok |-> FALSE, iat |-> 0, exp |-> 0, key |-> <<>>]
    ELSE [ok |-> TRUE, iat |-> now, exp |-> now + TokenLifetime,
          key |-> HexDecode(s).bytes]

\* variant: a failed submission yields the default signature and goes on
DispatchOutcome_DefaultSig(r) ==
    [ok |-> TRUE, sig |-> IF r = "Err" THEN "sigA" ELSE r]

\* send_transaction_with_auto_token(...).map_err(...)?
DispatchOutcome(r) ==
    IF r = "Err" THEN [ok |-> FALSE, sig |-> "none"]
                 ELSE [ok |-> TRUE, sig |-> r]

\* variant: an on-chain rejection is polled again
PollOutcome_RejectionRetried(r) ==
    IF r = "SomeOk" THEN "confirmed" ELSE "retry"

\* variant: a transaction not yet processed counts as confirmed
PollOutcome_NoneConfirms(r) ==
    IF r \in {"SomeOk", "None"} THEN "confirmed"
    ELSE IF r = "SomeErr" THEN "rejected" ELSE "retry"

\* variant: a failed status query ends the loop
PollOutcome_QueryErrEnds(r) ==
    IF r = "SomeOk" THEN "confirmed"
    ELSE IF r \in {"SomeErr", "QueryErr"} THEN "rejected" ELSE "retry"

\* the match on the status query's result
PollOutcome(r) ==
    CASE r = "SomeOk"   -> "confirmed"
      [] r = "SomeErr"  -> "rejected"
      [] r = "None"     -> "retry"
      [] r = "QueryErr" -> "retry"

\* variant: the last attempt is left out
LoopContinues_OneShort(a, m) == a < m

\* for attempt in 1..=max_retries
LoopContinues(a, m) == a <= m

\* variant: a response with success = false is taken for a completed tick
IpcTriggerTick_FalseIsOk(resp) ==
    CASE resp = "OkTrue"       -> "Ok"
      [] resp = "OkFalse"      -> "Ok"
      [] resp = "TransportErr" -> "Err"

\* TickDriver for IpcClient: Ok(true) is Ok(()), Ok(false) and Err are Err
IpcTriggerTick(resp) ==
    CASE resp = "OkTrue"       -> "Ok"
      [] resp = "OkFalse"      -> "Err"
      [] resp = "TransportErr" -> "Err"

\* one entry of the call history
Event(e, s, r, a) == [ev |-> e, sig |-> s, res |-> r, att |-> a]

Returned(k, w, s, a) == [kind |-> k, why |-> w, sig |-> s, attempts |-> a]
NoResult == Returned("none", "none", "none", 0)

RetryInit ==
    /\ driver \in Drivers
    /\ max_retries \in 0..MaxRetries
    /\ secret \in SecretOptions
    /\ pc = "start"
    /\ attempt = 0
    /\ signature = "none"
    /\ jwt_token = <<>>
    /\ result = NoResult
    /\ log = <<>>

\* get_auth_token_secret().ok_or_else(...)? and create_jwt_token(...)?
Mint ==
    /\ pc = "start"
    /\ IF secret = NoSecret
       THEN /\ pc' = "done"
            /\ result' = Returned("Err", "jwt_not_set", "none", 0)
            /\ UNCHANGED jwt_token
       ELSE \E now \in ClockValues :
              LET t == CreateJwtToken(secret[2], now)
              IN  IF t.ok
                  THEN /\ jwt_token' = t
                       /\ pc' = "send"
                       /\ UNCHANGED result
                  ELSE /\ pc' = "done"
                       /\ result' = Returned("Err", "mint_failed", "none", 0)
                       /\ UNCHANGED jwt_token
    /\ UNCHANGED <<driver, max_retries, secret, attempt, signature, log>>
    /\ UNCHANGED tickVars

\* the authenticated submission call and the entry into the for loop
Dispatch ==
    /\ pc = "send"
    /\ \E r \in Sigs \cup {"Err"} :
         LET o == DispatchOutcome(r)
         IN  /\ log' = Append(log, Event("dispatch", o.sig,
                                         IF r = "Err" THEN "Err" ELSE "Ok", 0))
             /\ IF o.ok
                THEN /\ signature' = o.sig
                     /\ attempt' = 1
                     /\ pc' = "loop"
                     /\ UNCHANGED result
                ELSE /\ pc' = "done"
                     /\ result' = Returned("Err", "send_failed", "none", 0)
                     /\ UNCHANGED <<signature, attempt>>
    /\ UNCHANGED <<driver, max_retries, secret, jwt_token>>
    /\ UNCHANGED tickVars

\* one get_signature_status_with_commitment(&signature, processed) and its match
Poll ==
    /\ pc = "loop"
    /\ LoopContinues(attempt, max_retries)
    /\ \E r \in StatusResults :
         /\ log' = Append(log, Event("poll", signature, r, attempt))
         /\ CASE PollOutcome(r) = "confirmed" ->
                   /\ pc' = "done"
                   /\ result' = Returned("Ok", "confirmed", signature, attempt)
              [] PollOutcome(r) = "rejected" ->
                   /\ pc' = "done"
                   /\ result' = Returned("Err", "tx_failed", signature, attempt)
              [] PollOutcome(r) = "retry" ->
                   /\ pc' = "tick"
                   /\ UNCHANGED result
    /\ UNCHANGED <<driver, max_retries, secret, attempt, signature, jwt_token>>
    /\ UNCHANGED tickVars

\* tick_driver.trigger_tick().map_err(...)? with the cross-process driver
TriggerTickIpc ==
    /\ pc = "tick"
    /\ driver = "ipc"
    /\ \E resp \in IpcTickResults :
         LET o == IpcTriggerTick(resp)
         IN  /\ log' = log \o <<Event("tick", signature, "call", attempt),
                                 Event("tick_ret", signature, o, attempt)>>
             /\ IF o = "Ok"
                THEN /\ pc' = "sleep"
                     /\ UNCHANGED result
                ELSE /\ pc' = "done"
                     /\ result' = Returned("Err", "tick_failed", signature, attempt)
             /\ ipcResps' = Append(ipcResps, resp)
    /\ UNCHANGED <<driver, max_retries, secret, attempt, signature, jwt_token>>
    /\ installedInFlight' = FALSE
    /\ UNCHANGED <<installed, validatorUp, reqQ, doneQ, tickCount, tpc, calls,
                   served, returned, lastDone, lockReaders, tickErr>>

\* tick_driver.trigger_tick() with the in-process driver: the call is entered
TriggerTickLocal ==
    /\ pc = "tick"
    /\ driver = "local"
    /\ pc' = "in_tick"
    /\ log' = Append(log, Event("tick", signature, "call", attempt))
    /\ tpc' = [tpc EXCEPT ![LoopCaller] = "called"]
    /\ calls' = [calls EXCEPT ![LoopCaller] = @ + 1]
    /\ lastDone' = [lastDone EXCEPT ![LoopCaller] = "none"]
    /\ UNCHANGED <<driver, max_retries, secret, attempt, signature, jwt_token,
                   result>>
    /\ installedInFlight' = FALSE
    /\ UNCHANGED <<installed, validatorUp, reqQ, doneQ, tickCount, served,
                   returned, lockReaders, tickErr, ipcResps>>

\* the in-process trigger_tick has returned: .map_err(...)?
TriggerTickLocalReturn ==
    /\ pc = "in_tick"
    /\ tpc[LoopCaller] \in {"ok", "err"}
    /\ LET o == IF tpc[LoopCaller] = "ok" THEN "Ok" ELSE "Err"
       IN  /\ log' = Append(log, Event("tick_ret", signature, o, attempt))
           /\ IF o = "Ok"
              THEN /\ pc' = "sleep"
                   /\ UNCHANGED result
              ELSE /\ pc' = "done"
                   /\ result' = Returned("Err", "tick_failed", signature, attempt)
    /\ tpc' = [tpc EXCEPT ![LoopCaller] = "idle"]
    /\ UNCHANGED <<driver, max_retries, secret, attempt, signature, jwt_token>>
    /\ installedInFlight' = FALSE
    /\ UNCHANGED <<installed, validatorUp, reqQ, doneQ, tickCount, calls,
                   served, returned, lastDone, lockReaders, tickErr,
                   ipcResps>>

\* std::thread::sleep(poll_interval) and the loop's next iteration
Sleep ==
    /\ pc = "sleep"
    /\ log' = Append(log, Event("sleep", signature, "done", attempt))
    /\ attempt' = attempt + 1
    /\ pc' = "loop"
    /\ UNCHANGED <<driver, max_retries, secret, signature, jwt_token, result>>
    /\ UNCHANGED tickVars

\* the loop is exhausted: Err(TimedOut, "... timeout after {max_retries} attempts")
Timeout ==
    /\ pc = "loop"
    /\ ~LoopContinues(attempt, max_retries)
    /\ pc' = "done"
    /\ result' = Returned("Err", "timeout", signature, max_retries)
    /\ UNCHANGED <<driver, max_retries, secret, attempt, signature, jwt_token,
                   log>>
    /\ UNCHANGED tickVars

(* -------------------------------- Bridge ------------------------------- *)

Keys == {"k1", "k2"}

\* a transaction, by the keys its message requires signatures of; with no
\* required signer it has no signature slot
Transactions == [req : SUBSET Keys]

RECURSIVE SeqsUpTo(_, _)
SeqsUpTo(S, n) ==
    IF n = 0 THEN {<<>>}
    ELSE LET P == SeqsUpTo(S, n - 1)
         IN  P \cup {Append(q, x) : q \in {r \in P : Len(r) = n - 1}, x \in S}

Batches == SeqsUpTo(Transactions, MaxBatch)
SignerSets == SUBSET Keys

\* rpc_client.get_latest_blockhash()
AnchorResults == {"Ok", "Err"}

\* the bool tpu_client.send_transaction returns
TransportResults == {TRUE, FALSE}

\* time one iteration of the polling loop takes, in sleeps: the sleep itself,
\* or more when the status query is slow
IterationTimes == {1, 2}

\* Transaction::sign panics unless the keypairs are the transaction's
\* required signers: a foreign keypair and a missing one both fail try_sign
SignOutcome(tx, ks) == IF ks = tx.req THEN "signed" ELSE "panic"

\* transaction.signatures[0] is an index out of bounds without a slot
HasSignatureSlot(tx) == tx.req # {}

\* confirm_transaction: if now.elapsed() > timeout
DeadlinePassed(e) == e > ConfirmTimeout

\* variant: a failed status query ends the wait as a timeout
StatusDecision_QueryErrIsTimeout(r) ==
    CASE r = "SomeOk"   -> "SomeOk"
      [] r = "SomeErr"  -> "SomeErr"
      [] r = "None"     -> "undecided"
      [] r = "QueryErr" -> "None"

\* variant: a missing status is taken for a success
StatusDecision_NoneConfirms(r) ==
    CASE r = "SomeOk"   -> "SomeOk"
      [] r = "SomeErr"  -> "SomeErr"
      [] r = "None"     -> "SomeOk"
      [] r = "QueryErr" -> "undecided"

\* confirm_transaction: if let Ok(status) = ... { if status.is_some() {
\* return status } }: a query error and a missing status both go on
StatusDecision(r) ==
    CASE r = "SomeOk"   -> "SomeOk"
      [] r = "SomeErr"  -> "SomeErr"
      [] r = "None"     -> "undecided"
      [] r = "QueryErr" -> "undecided"

\* variant: an on-chain failure is skipped like a success
BatchAfterConfirm_FailureSkipped(ret) ==
    CASE ret = "SomeOk"  -> "next"
      [] ret = "SomeErr" -> "next"
      [] ret = "None"    -> "timeout"

\* variant: a timed-out confirmation is skipped like a success
BatchAfterConfirm_TimeoutSkipped(ret) ==
    CASE ret = "SomeOk"  -> "next"
      [] ret = "SomeErr" -> "failed"
      [] ret = "None"    -> "next"

\* send_and_confirm_transactions_sequentially: match
\* self.confirm_transaction(signature)
BatchAfterConfirm(ret) ==
    CASE ret = "SomeOk"  -> "next"
      [] ret = "SomeErr" -> "failed"
      [] ret = "None"    -> "timeout"

\* one entry of the operation's call history
BEvent(e, i, r) == [ev |-> e, tx |-> i, res |-> r]

\* a signature is named by the position of its transaction, 0 is none
BReturned(k, w, i) == [kind |-> k, why |-> w, sig |-> i]

NoBResult == BReturned("none", "", 0)

\* no Bridge operation is running
BridgeParked ==
    /\ op = "none"
    /\ batch = <<>>
    /\ signers = {}
    /\ bidx = 0
    /\ bpc = "parked"
    /\ elapsed = 0
    /\ polls = <<>>
    /\ cret = "none"
    /\ bresult = NoBResult
    /\ blog = <<>>

\* a call of send_and_confirm_transactions_sequentially or of transfer
BridgeInit ==
    /\ op \in {"batch", "transfer"}
    /\ IF op = "batch"
       THEN /\ batch \in Batches
            /\ signers \in SignerSets
            /\ bidx = 0
            /\ bpc = "loop"
       ELSE /\ batch = <<[req |-> {"k1"}]>>
            /\ signers = {"k1"}
            /\ bidx = 1
            /\ bpc = "fetch"
    /\ elapsed = 0
    /\ polls = <<>>
    /\ cret = "none"
    /\ bresult = NoBResult
    /\ blog = <<>>

\* for transaction in transactions ... Ok(())
BatchLoop ==
    /\ op = "batch"
    /\ bpc = "loop"
    /\ IF bidx < Len(batch)
       THEN /\ bidx' = bidx + 1
            /\ bpc' = "fetch"
            /\ UNCHANGED bresult
       ELSE /\ bpc' = "done"
            /\ bresult' = BReturned("Ok", "", 0)
            /\ UNCHANGED bidx
    /\ UNCHANGED <<op, batch, signers, elapsed, polls, cret, blog>>

\* self.rpc_client.get_latest_blockhash().map_err(|e| e.to_string())?
BatchFetch ==
    /\ op = "batch"
    /\ bpc = "fetch"
    /\ \E a \in AnchorResults :
         /\ blog' = Append(blog, BEvent("fetch", bidx, a))
         /\ IF a = "Ok"
            THEN /\ bpc' = "sign"
                 /\ UNCHANGED bresult
            ELSE /\ bpc' = "done"
                 /\ bresult' = BReturned("Err", "anchor", 0)
    /\ UNCHANGED <<op, batch, signers, bidx, elapsed, polls, cret>>

\* transaction.sign(signers, recent_blockhash)
BatchSign ==
    /\ op = "batch"
    /\ bpc = "sign"
    /\ LET o == SignOutcome(batch[bidx], signers)
       IN  /\ blog' = Append(blog, BEvent("sign", bidx, o))
           /\ bpc' = IF o = "signed" THEN "send" ELSE "panicked"
    /\ UNCHANGED <<op, batch, signers, bidx, elapsed, polls, cret, bresult>>

\* self.tpu_client.send_transaction(transaction): the bool is dropped
BatchSend ==
    /\ op = "batch"
    /\ bpc = "send"
    /\ \E t \in TransportResults :
         blog' = Append(blog, BEvent("dispatch", bidx, IF t THEN "sent" ELSE "dropped"))
    /\ bpc' = "sig0"
    /\ UNCHANGED <<op, batch, signers, bidx, elapsed, polls, cret, bresult>>

\* let signature = &transaction.signatures[0], then confirm_transaction is
\* entered: let now = Instant::now()
BatchSignature ==
    /\ op = "batch"
    /\ bpc = "sig0"
    /\ IF HasSignatureSlot(batch[bidx])
       THEN /\ bpc' = "confirm"
            /\ elapsed' = 0
            /\ polls' = <<>>
            /\ cret' = "running"
       ELSE /\ bpc' = "panicked"
            /\ UNCHANGED <<elapsed, polls, cret>>
    /\ UNCHANGED <<op, batch, signers, bidx, bresult, blog>>

\* confirm_transaction: one iteration of the loop
ConfirmTransaction ==
    /\ bpc = "confirm"
    /\ IF DeadlinePassed(elapsed)
       THEN /\ cret' = "None"
            /\ bpc' = "match"
            /\ blog' = Append(blog, BEvent("confirm", bidx, "None"))
            /\ UNCHANGED <<elapsed, polls>>
       ELSE \E r \in StatusResults :
              /\ polls' = Append(polls, r)
              /\ IF StatusDecision(r) = "undecided"
                 THEN /\ \E d \in IterationTimes : elapsed' = elapsed + d
                      /\ UNCHANGED <<cret, bpc, blog>>
                 ELSE /\ cret' = StatusDecision(r)
                      /\ bpc' = "match"
                      /\ blog' = Append(blog, BEvent("confirm", bidx, StatusDecision(r)))
                      /\ UNCHANGED elapsed
    /\ UNCHANGED <<op, batch, signers, bidx, bresult>>

\* match self.confirm_transaction(signature)
BatchMatch ==
    /\ op = "batch"
    /\ bpc = "match"
    /\ LET o == BatchAfterConfirm(cret)
       IN  IF o = "next"
           THEN /\ bpc' = "loop"
                /\ UNCHANGED bresult
           ELSE /\ bpc' = "done"
                /\ bresult' = BReturned("Err", o, bidx)
    /\ UNCHANGED <<op, batch, signers, bidx, elapsed, polls, cret, blog>>

\* transfer: let recent_blockhash = self.rpc_client.get_latest_blockhash()?
TransferFetch ==
    /\ op = "transfer"
    /\ bpc = "fetch"
    /\ \E a \in AnchorResults :
         /\ blog' = Append(blog, BEvent("fetch", bidx, a))
         /\ IF a = "Ok"
            THEN /\ bpc' = "send"
                 /\ UNCHANGED bresult
            ELSE /\ bpc' = "done"
                 /\ bresult' = BReturned("Err", "anchor", 0)
    /\ UNCHANGED <<op, batch, signers, bidx, elapsed, polls, cret>>

\* transfer: system_transaction::transfer(...);
\* self.tpu_client.send_transaction(&transaction);
\* Ok(transaction.signatures[0])
TransferSend ==
    /\ op = "transfer"
    /\ bpc = "send"
    /\ \E t \in TransportResults :
         blog' = Append(blog, BEvent("dispatch", bidx, IF t THEN "sent" ELSE "dropped"))
    /\ bpc' = "done"
    /\ bresult' = BReturned("Ok", "", bidx)
    /\ UNCHANGED <<op, batch, signers, bidx, elapsed, polls, cret>>

(* ------------------------------ IpcServer ------------------------------ *)

\* what the payload of one frame on the stream can be: cut short, bytes that
\* are no IpcMessage, a Response, BatchTransactions with signer bytes that
\* are no keypair, and BatchTransactions proper
FrameKinds == {"truncated", "garbage", "response", "badkeys", "batch"}

Frame(k, b, ks) == [kind |-> k, txs |-> b, signers |-> ks]

NoFrame == Frame("none", <<>>, {})

\* the transactions a frame carries: each requires no signature or the
\* signature of the first key; the signers sent with them range over all keys
IpcTransactions == [req : SUBSET {"k1"}]

IpcBatches == SeqsUpTo(IpcTransactions, MaxIpcBatch)

Frames ==
    {Frame(k, <<>>, {}) : k \in FrameKinds \ {"batch"}}
        \cup {Frame("batch", b, ks) : b \in IpcBatches, ks \in SignerSets}

\* lengths a frame can declare: none, below the cap, the cap, above the cap
DeclaredLens == {0, FrameCap - 1, FrameCap, FrameCap + 1}

\* variant: a frame of exactly the cap is rejected too
Oversize_AtCap(n) == n >= FrameCap

\* handle_client: if msg_len > 10 * 1024 * 1024
Oversize(n) == n > FrameCap

\* IpcMessage::Response { success, message }, with the request it was
\* written for
Response(k, ok, m) == [to |-> k, success |-> ok, message |-> m]

\* process_message for the requests answered without a submission
ProcessMessage(kind) ==
    CASE kind = "response" -> "unexpected"
      [] kind = "badkeys"  -> "signer"

\* variant: a failed submission is answered as a success
BatchOutcome_AlwaysSuccess(k) ==
    [success |-> TRUE, message |-> "processed"]

\* process_message: match bridge.send_and_confirm_transactions_sequentially
BatchOutcome(k) ==
    IF k = "Ok" THEN [success |-> TRUE, message |-> "processed"]
                ELSE [success |-> FALSE, message |-> "tx_error"]

\* send_response: write_all fails once the peer has closed the stream
SendResponse(out, open, r) ==
    IF open THEN [ok |-> TRUE, out |-> Append(out, r)]
            ELSE [ok |-> FALSE, out |-> out]

\* variant: a payload that does not deserialize ends the connection
ContinuesAfter_GarbageBreaks(kind, written) ==
    IF kind = "garbage" THEN FALSE ELSE written

\* handle_client: after a deserialization error the result of send_response
\* is dropped and the loop continues; otherwise a failed write breaks
ContinuesAfter(kind, written) ==
    IF kind = "garbage" THEN TRUE ELSE written

\* no connection is served
IpcParked ==
    /\ conn = "none"
    /\ ipos = "parked"
    /\ clientOpen = FALSE
    /\ pending = 0
    /\ framesSent = 0
    /\ reqCount = 0
    /\ outbound = <<>>
    /\ msgLen = 0
    /\ msgBuf = NoFrame
    /\ cpc = "none"
    /\ cresult = "none"

\* accept_connections: a connection of a peer that writes frames of its own
\* was accepted and handle_client spawned; or a call of
\* IpcClient::send_batch_transactions is about to connect
IpcInit ==
    /\ cpc \in {"raw", "start"}
    /\ conn = IF cpc = "raw" THEN "open" ELSE "none"
    /\ ipos = IF cpc = "raw" THEN "read" ELSE "parked"
    /\ clientOpen = (cpc = "raw")
    /\ pending = 0
    /\ framesSent = 0
    /\ reqCount = 0
    /\ outbound = <<>>
    /\ msgLen = 0
    /\ msgBuf = NoFrame
    /\ cresult = "none"

\* the peer writes one more frame to the stream
ClientWrite ==
    /\ cpc = "raw"
    /\ clientOpen
    /\ conn = "open"
    /\ framesSent < MaxFrames
    /\ framesSent' = framesSent + 1
    /\ pending' = pending + 1
    /\ UNCHANGED <<conn, ipos, clientOpen, reqCount, outbound, msgLen, msgBuf,
                   cpc, cresult>>

\* the peer closes its end of the stream
ClientClose ==
    /\ cpc = "raw"
    /\ clientOpen
    /\ conn = "open"
    /\ clientOpen' = FALSE
    /\ UNCHANGED <<conn, ipos, pending, framesSent, reqCount, outbound,
                   msgLen, msgBuf, cpc, cresult>>

\* send_batch_transactions: UnixStream::connect(&self.socket_path).await?
ClientConnect ==
    /\ cpc = "start"
    /\ \E listening \in BOOLEAN :
         IF listening
         THEN /\ conn' = "open"
              /\ ipos' = "read"
              /\ clientOpen' = TRUE
              /\ cpc' = "connected"
              /\ UNCHANGED cresult
         ELSE /\ cpc' = "returned"
              /\ cresult' = "ErrConnect"
              /\ UNCHANGED <<conn, ipos, clientOpen>>
    /\ UNCHANGED <<pending, framesSent, reqCount, outbound, msgLen, msgBuf>>

\* send_batch_transactions: the length and the serialized BatchTransactions
\* are written and flushed
ClientSendBatch ==
    /\ cpc = "connected"
    /\ framesSent' = framesSent + 1
    /\ pending' = pending + 1
    /\ cpc' = "sent"
    /\ UNCHANGED <<conn, ipos, clientOpen, reqCount, outbound, msgLen, msgBuf,
                   cresult>>

\* send_batch_transactions: the response is read and Ok(success) returned;
\* read_exact fails when the server has dropped the stream; the client's
\* stream is dropped at the return
ClientReadResponse ==
    /\ cpc = "sent"
    /\ outbound # <<>> \/ conn \in {"closed", "aborted"}
    /\ cresult' = IF outbound # <<>>
                  THEN (IF outbound[1].success THEN "OkTrue" ELSE "OkFalse")
                  ELSE "ErrTransport"
    /\ cpc' = "returned"
    /\ clientOpen' = FALSE
    /\ UNCHANGED <<conn, ipos, pending, framesSent, reqCount, outbound,
                   msgLen, msgBuf>>

\* handle_client: read_exact of the length hits the end of the stream
HandleEof ==
    /\ conn = "open"
    /\ ipos = "read"
    /\ pending = 0
    /\ ~clientOpen
    /\ conn' = "closed"
    /\ UNCHANGED <<ipos, clientOpen, pending, framesSent, reqCount, outbound,
                   msgLen, msgBuf, cpc, cresult>>
    /\ UNCHANGED bridgeVars

\* handle_client: stream.read_exact(&mut len_buf);
\* msg_len = u32::from_le_bytes(len_buf)
ReadLength ==
    /\ conn = "open"
    /\ ipos = "read"
    /\ pending > 0
    /\ pending' = pending - 1
    /\ \E n \in DeclaredLens :
         /\ cpc # "raw" => n > 0
         /\ msgLen' = n
    /\ ipos' = "have_len"
    /\ UNCHANGED <<conn, clientOpen, framesSent, reqCount, outbound, msgBuf,
                   cpc, cresult>>
    /\ UNCHANGED bridgeVars

\* handle_client: the size test, then read_exact of msg_len bytes, which
\* fails when the peer has closed the stream before writing them all; a
\* payload of no bytes is no IpcMessage; IpcClient writes BatchTransactions
\* with the bytes of real keypairs
ReadPayload ==
    /\ conn = "open"
    /\ ipos = "have_len"
    /\ IF Oversize(msgLen)
       THEN /\ conn' = "closed"
            /\ ipos' = "read"
            /\ UNCHANGED <<reqCount, msgBuf>>
       ELSE \E f \in Frames :
              /\ f.kind = "truncated" => (~clientOpen /\ pending = 0 /\ msgLen > 0)
              /\ msgLen = 0 => f.kind = "garbage"
              /\ cpc # "raw" => f.kind = "batch"
              /\ IF f.kind = "truncated"
                 THEN /\ conn' = "closed"
                      /\ ipos' = "read"
                      /\ UNCHANGED <<reqCount, msgBuf>>
                 ELSE /\ reqCount' = reqCount + 1
                      /\ msgBuf' = f
                      /\ ipos' = "have_msg"
                      /\ UNCHANGED conn
    /\ msgLen' = 0
    /\ UNCHANGED <<clientOpen, pending, framesSent, outbound, cpc, cresult>>
    /\ UNCHANGED bridgeVars

\* handle_client: bincode::deserialize, process_message up to the call of
\* send_and_confirm_transactions_sequentially, send_response
HandleFrame ==
    /\ conn = "open"
    /\ ipos = "have_msg"
    /\ msgBuf' = NoFrame
    /\ IF msgBuf.kind = "batch"
       THEN /\ ipos' = "processing"
            /\ op' = "batch"
            /\ batch' = msgBuf.txs
            /\ signers' = msgBuf.signers
            /\ bidx' = 0
            /\ bpc' = "loop"
            /\ elapsed' = 0
            /\ polls' = <<>>
            /\ cret' = "none"
            /\ bresult' = NoBResult
            /\ blog' = <<>>
            /\ UNCHANGED <<conn, outbound>>
       ELSE LET m == IF msgBuf.kind = "garbage" THEN "deser"
                     ELSE ProcessMessage(msgBuf.kind)
                w == SendResponse(outbound, clientOpen,
                                  Response(reqCount, FALSE, m))
            IN  /\ outbound' = w.out
                /\ conn' = IF ContinuesAfter(msgBuf.kind, w.ok) THEN "open"
                                                                ELSE "closed"
                /\ ipos' = "read"
                /\ UNCHANGED bridgeVars
    /\ UNCHANGED <<clientOpen, pending, framesSent, reqCount, msgLen, cpc,
                   cresult>>

\* process_message: send_and_confirm_transactions_sequentially has returned;
\* the Response carries success = true for Ok; handle_client writes it and
\* breaks when the write fails
BatchResponse ==
    /\ conn = "open"
    /\ ipos = "processing"
    /\ bpc = "done"
    /\ LET o == BatchOutcome(bresult.kind)
           w == SendResponse(outbound, clientOpen,
                             Response(reqCount, o.success, o.message))
       IN  /\ outbound' = w.out
           /\ conn' = IF w.ok THEN "open" ELSE "closed"
    /\ ipos' = "read"
    /\ op' = "none"
    /\ batch' = <<>>
    /\ signers' = {}
    /\ bidx' = 0
    /\ bpc' = "parked"
    /\ elapsed' = 0
    /\ polls' = <<>>
    /\ cret' = "none"
    /\ bresult' = NoBResult
    /\ blog' = <<>>
    /\ UNCHANGED <<clientOpen, pending, framesSent, reqCount, msgLen, msgBuf,
                   cpc, cresult>>

\* a panic inside process_message unwinds the task tokio::spawn started for
\* the connection: the stream is dropped, nothing more is read or written
TaskPanic ==
    /\ conn = "open"
    /\ ipos = "processing"
    /\ bpc = "panicked"
    /\ conn' = "aborted"
    /\ UNCHANGED <<ipos, clientOpen, pending, framesSent, reqCount, outbound,
                   msgLen, msgBuf, cpc, cresult>>
    /\ UNCHANGED bridgeVars

(* --------------------------- the frame codec --------------------------- *)

\* A byte is scaled to ByteBase values and a length field (the u32 prefix of
\* a frame, the u64 length bincode writes before a Vec or a String, the u32
\* variant index) to LenBytes bytes, so that LenMod stands for 2^32.
ByteBase == 4
LenBytes == 2

RECURSIVE Pow(_, _)
Pow(b, e) == IF e = 0 THEN 1 ELSE b * Pow(b, e - 1)

LenMod == Pow(ByteBase, LenBytes)

Bytes == 0 .. (ByteBase - 1)

\* IpcMessage: the two variants, as one record shape
BatchTransactions(txs, sg) ==
    [tag |-> "BatchTransactions", transactions |-> txs, signers |-> sg,
     success |-> FALSE, message |-> <<>>]

ResponseMsg(ok, m) ==
    [tag |-> "Response", transactions |-> <<>>, signers |-> <<>>,
     success |-> ok, message |-> m]

NoMessage ==
    [tag |-> "none", transactions |-> <<>>, signers |-> <<>>,
     success |-> FALSE, message |-> <<>>]

\* the byte strings of length n the model draws contents from
Text(n, b, s) == [i \in 1 .. n |-> (b + i * s) % ByteBase]

Texts == {Text(n, b, s) : n \in 0 .. MaxText, b \in Bytes, s \in 0 .. 1}

\* a serialized Transaction, a serialized Keypair: opaque byte strings
Blobs == {Text(n, 1, 1) : n \in 0 .. MaxBlob}

Messages ==
    {ResponseMsg(ok, m) : ok \in BOOLEAN, m \in Texts}
        \cup {BatchTransactions(txs, sg) : txs \in SeqsUpTo(Blobs, MaxIpcBatch),
                                           sg \in SeqsUpTo(Blobs, MaxBlob)}

\* variant: the length is written most significant byte first
ToLE_BigEndian(n) ==
    [i \in 1 .. LenBytes |-> (n \div Pow(ByteBase, LenBytes - i)) % ByteBase]

\* to_le_bytes of a length field
ToLE(n) == [i \in 1 .. LenBytes |-> (n \div Pow(ByteBase, i - 1)) % ByteBase]

\* u32::from_le_bytes
RECURSIVE FromLE(_)
FromLE(bs) ==
    IF bs = <<>> THEN 0 ELSE Head(bs) + ByteBase * FromLE(Tail(bs))

\* bincode::serialize of a Vec<u8> or a String: its length, then its bytes
SerializeBlob(b) == ToLE(Len(b)) \o b

RECURSIVE SerializeBlobs(_)
SerializeBlobs(bs) ==
    IF bs = <<>> THEN <<>>
    ELSE SerializeBlob(Head(bs)) \o SerializeBlobs(Tail(bs))

\* bincode::serialize(&message): the variant index, then the fields in order
Serialize(m) ==
    IF m.tag = "BatchTransactions"
    THEN <<0>> \o ToLE(Len(m.transactions)) \o SerializeBlobs(m.transactions)
              \o ToLE(Len(m.signers)) \o SerializeBlobs(m.signers)
    ELSE <<1>> \o <<IF m.success THEN 1 ELSE 0>> \o SerializeBlob(m.message)

\* the deserializer's reads, each from position pos of the buffer; a read
\* beyond the end of the buffer is an error
Taken(v, q) == [ok |-> TRUE, val |-> v, pos |-> q]
Short == [ok |-> FALSE, val |-> <<>>, pos |-> 0]

TakeLen(bs, pos) ==
    IF pos + LenBytes - 1 <= Len(bs)
    THEN Taken(FromLE(SubSeq(bs, pos, pos + LenBytes - 1)), pos + LenBytes)
    ELSE Short

TakeBlob(bs, pos) ==
    LET l == TakeLen(bs, pos)
    IN  IF l.ok /\ l.pos + l.val - 1 <= Len(bs)
        THEN Taken(SubSeq(bs, l.pos, l.pos + l.val - 1), l.pos + l.val)
        ELSE Short

RECURSIVE TakeBlobsFrom(_, _, _, _)
TakeBlobsFrom(bs, pos, n, acc) ==
    IF n = 0 THEN Taken(acc, pos)
    ELSE LET b == TakeBlob(bs, pos)
         IN  IF b.ok THEN TakeBlobsFrom(bs, b.pos, n - 1, Append(acc, b.val))
             ELSE Short

TakeBlobs(bs, pos) ==
    LET n == TakeLen(bs, pos)
    IN  IF n.ok THEN TakeBlobsFrom(bs, n.pos, n.val, <<>>) ELSE Short

DeserializeErr == [ok |-> FALSE, value |-> NoMessage]

\* bincode::deserialize::<IpcMessage>(&buf): bytes after the value are ignored
Deserialize(bs) ==
    IF bs = <<>> THEN DeserializeErr
    ELSE IF bs[1] = 0
    THEN LET txs == TakeBlobs(bs, 2)
         IN  IF ~txs.ok THEN DeserializeErr
             ELSE LET sg == TakeBlobs(bs, txs.pos)
                  IN  IF ~sg.ok THEN DeserializeErr
                      ELSE [ok |-> TRUE,
                            value |-> BatchTransactions(txs.val, sg.val)]
    ELSE IF bs[1] = 1
    THEN IF Len(bs) < 2 \/ bs[2] > 1 THEN DeserializeErr
         ELSE LET m == TakeBlob(bs, 3)
              IN  IF ~m.ok THEN DeserializeErr
                  ELSE [ok |-> TRUE, value |-> ResponseMsg(bs[2] = 1, m.val)]
    ELSE DeserializeErr

\* the largest declared length the reader of a direction goes on to read:
\* handle_client's cap, and any length at all at IpcClient
ReaderCap(d) == IF d = "to_server" THEN FrameCap ELSE LenMod - 1

NotDecoded == [ok |-> FALSE, value |-> NoMessage]

CodecParked ==
    /\ frameMsg = NoMessage
    /\ frameDir = "none"
    /\ wire = <<>>
    /\ fpc = "parked"
    /\ declared = 0
    /\ body = <<>>
    /\ decoded = NotDecoded


\* send_response is handed any IpcMessage; send_batch_transactions builds a
\* BatchTransactions
CodecInit ==
    /\ frameMsg \in Messages
    /\ frameDir \in {"to_server", "to_client"}
    /\ frameDir = "to_server" => frameMsg.tag = "BatchTransactions"
    /\ wire = <<>>
    /\ fpc = "start"
    /\ declared = 0
    /\ body = <<>>
    /\ decoded = NotDecoded

\* send_response / send_batch_transactions: serialize, write the length as
\* u32, write the bytes, flush
WriteFrame ==
    /\ fpc = "start"
    /\ LET msg_bytes == Serialize(frameMsg)
       IN  wire' = ToLE(Len(msg_bytes) % LenMod) \o msg_bytes
    /\ fpc' = "written"
    /\ UNCHANGED <<frameMsg, frameDir, declared, body, decoded>>

\* the reader: read_exact(&mut len_buf), u32::from_le_bytes(len_buf)
ReadFrameLen ==
    /\ fpc = "written"
    /\ declared' = FromLE(SubSeq(wire, 1, LenBytes))
    /\ wire' = SubSeq(wire, LenBytes + 1, Len(wire))
    /\ fpc' = "have_len"
    /\ UNCHANGED <<frameMsg, frameDir, body, decoded>>

\* the reader: handle_client's size test, then read_exact(&mut msg_buf) of
\* the declared number of bytes
ReadFrameBody ==
    /\ fpc = "have_len"
    /\ IF frameDir = "to_server" /\ Oversize(declared)
       THEN /\ fpc' = "rejected"
            /\ UNCHANGED <<wire, body>>
       ELSE IF Len(wire) < declared
       THEN /\ fpc' = "starved"
            /\ UNCHANGED <<wire, body>>
       ELSE /\ body' = SubSeq(wire, 1, declared)
            /\ wire' = SubSeq(wire, declared + 1, Len(wire))
            /\ fpc' = "have_body"
    /\ UNCHANGED <<frameMsg, frameDir, declared, decoded>>

\* the reader: bincode::deserialize::<IpcMessage>(&msg_buf)
DecodeFrame ==
    /\ fpc = "have_body"
    /\ decoded' = Deserialize(body)
    /\ fpc' = "done"
    /\ UNCHANGED <<frameMsg, frameDir, wire, declared, body>>

(* ------------------------- the socket file ----------------------------- *)

\* IpcServer instances configured with the same socket_path
Servers == {"A", "B"}

PathContents == {"absent", "stale", "dir"} \cup Servers

NoSockStep == [op |-> "none", server |-> "none", before |-> "absent"]
SockStep(o, s) == [op |-> o, server |-> s, before |-> sockFile]

\* Path::new(..).exists()
Exists(f) == f # "absent"

\* std::fs::remove_file succeeds on a file or a socket, not on a directory
RemoveFileOk(f) == f # "dir"

\* variant: stop leaves the file in place
AfterStop_KeepsFile(f) == f

\* IpcServer::stop: the path's content after exists() / remove_file, whose
\* error is logged
AfterStop(f) == IF Exists(f) /\ RemoveFileOk(f) THEN "absent" ELSE f

SockParked ==
    /\ sockFile = "absent"
    /\ srv = [s \in Servers |-> "parked"]
    /\ bound = [s \in Servers |-> FALSE]
    /\ found = [s \in Servers |-> "none"]
    /\ starts = [s \in Servers |-> 0]
    /\ sockLast = NoSockStep


\* IpcServer::new for each instance; the path holds nothing, a file of an
\* earlier run, or an entry that cannot be removed
SockInit ==
    /\ sockFile \in {"absent", "stale", "dir"}
    /\ srv = [s \in Servers |-> "new"]
    /\ bound = [s \in Servers |-> FALSE]
    /\ found = [s \in Servers |-> "none"]
    /\ starts = [s \in Servers |-> 0]
    /\ sockLast = NoSockStep

\* an instance that is not inside start: never started, start returned Err,
\* the future of start was dropped while it accepted, or stop has run
Idle(s) == srv[s] \in {"new", "failed", "listening", "stopped"}

\* start: if exists() { remove_file()? }
StartRemove(s) ==
    /\ Idle(s)
    /\ starts[s] < MaxStarts
    /\ starts' = [starts EXCEPT ![s] = @ + 1]
    /\ found' = [found EXCEPT ![s] = sockFile]
    /\ sockLast' = SockStep("remove", s)
    /\ IF Exists(sockFile) /\ ~RemoveFileOk(sockFile)
       THEN /\ srv' = [srv EXCEPT ![s] = "failed"]
            /\ UNCHANGED sockFile
       ELSE /\ srv' = [srv EXCEPT ![s] = "binding"]
            /\ sockFile' = "absent"
    /\ UNCHANGED bound

\* start: UnixListener::bind(path)?, self.listener = Some(listener), then
\* accept_connections; bind fails when the path is in use, or for a reason
\* of the file system
StartBind(s) ==
    /\ srv[s] = "binding"
    /\ sockLast' = SockStep("bind", s)
    /\ \E ok \in BOOLEAN :
           IF ok /\ ~Exists(sockFile)
           THEN /\ sockFile' = s
                /\ bound' = [bound EXCEPT ![s] = TRUE]
                /\ srv' = [srv EXCEPT ![s] = "listening"]
           ELSE /\ srv' = [srv EXCEPT ![s] = "failed"]
                /\ UNCHANGED <<sockFile, bound>>
    /\ UNCHANGED <<found, starts>>

\* IpcServer::stop
ServerStop(s) ==
    /\ Idle(s)
    /\ sockFile' = AfterStop(sockFile)
    /\ srv' = [srv EXCEPT ![s] = "stopped"]
    /\ sockLast' = SockStep("stop", s)
    /\ UNCHANGED <<bound, found, starts>>

\* impl Drop for IpcServer: self.stop(), then the listener is closed
ServerDrop(s) ==
    /\ Idle(s)
    /\ sockFile' = AfterStop(sockFile)
    /\ srv' = [srv EXCEPT ![s] = "dropped"]
    /\ bound' = [bound EXCEPT ![s] = FALSE]
    /\ sockLast' = SockStep("drop", s)
    /\ UNCHANGED <<found, starts>>

(* --------------------- transfers with an EVM memo ---------------------- *)

\* account keys: two wallets, system_program::id() and the memo program id
\* "11111111111111111111111111111112"
SystemProgram == "system_program"
MemoProgram == "memo_program"
Wallets == {"P1", "P2"}
Pubkeys == Wallets \cup {SystemProgram, MemoProgram}

\* bytes of an instruction's data. A memo is text: three hex digits ('0', a
\* lower-case and an upper-case one), 'x', a space, a letter that is no hex
\* digit, and a byte that is not UTF-8; smaller values are control bytes
Digit0 == 10
HexLower == 11
HexUpper == 12
CharX == 13
Space == 14
NonHex == 15
NotUtf8 == 16

AsciiHexDigits == {Digit0, HexLower, HexUpper}

\* the "0x" prefix
Prefix0x == <<Digit0, CharX>>

\* the number of hex characters of an address, 40, scaled
AddrLen == 4

\* SystemInstruction::Transfer is variant 2 of the enum
TransferTag == 2

\* variant: the amount is written before the variant index
EncodeTransfer_AmountFirst(lamports) == <<lamports, TransferTag>>

\* bincode::serialize(&SystemInstruction::Transfer { lamports })
EncodeTransfer(lamports) == <<TransferTag, lamports>>

\* bincode::deserialize::<SystemInstruction>(data), as far as the match
\* looks: Ok(Transfer { lamports }) or anything else
DecodeTransfer(data) ==
    IF Len(data) >= 2 /\ data[1] = TransferTag
    THEN [ok |-> TRUE, lamports |-> data[2]]
    ELSE [ok |-> FALSE, lamports |-> 0]

\* str::starts_with("0x")
StartsWith0x(t) == Len(t) >= 2 /\ SubSeq(t, 1, 2) = Prefix0x

\* chars().all(|c| c.is_ascii_hexdigit())
AllHex(t) == \A i \in DOMAIN t : t[i] \in AsciiHexDigits

\* str::trim
RECURSIVE TrimStart(_)
TrimStart(t) ==
    IF t # <<>> /\ Head(t) = Space THEN TrimStart(Tail(t)) ELSE t

RECURSIVE TrimEnd(_)
TrimEnd(t) ==
    IF t # <<>> /\ t[Len(t)] = Space
    THEN TrimEnd(SubSeq(t, 1, Len(t) - 1)) ELSE t

Trim(t) == TrimEnd(TrimStart(t))

\* results of the parser and of the memo extraction
ParseErr(m) ==
    [kind |-> "Err", msg |-> m, from |-> "none", to |-> "none", amount |-> 0,
     address |-> <<>>]
OkNone ==
    [kind |-> "None", msg |-> "", from |-> "none", to |-> "none", amount |-> 0,
     address |-> <<>>]
OkSome(f, t, a, addr) ==
    [kind |-> "Some", msg |-> "", from |-> f, to |-> t, amount |-> a,
     address |-> addr]
NotParsed ==
    [kind |-> "none", msg |-> "", from |-> "none", to |-> "none", amount |-> 0,
     address |-> <<>>]

\* variant: a memo that is not UTF-8 is an error
ExtractEvmAddressFromMemo_Utf8Err(memo_data) ==
    IF \E i \in DOMAIN memo_data : memo_data[i] = NotUtf8
    THEN ParseErr("InvalidUtf8")
    ELSE LET memo_text == Trim(memo_data)
         IN  IF Len(memo_text) = AddrLen + 2 /\ StartsWith0x(memo_text)
                    /\ AllHex(SubSeq(memo_text, 3, Len(memo_text)))
             THEN OkSome("none", "none", 0, memo_text)
             ELSE IF Len(memo_text) = AddrLen /\ AllHex(memo_text)
             THEN OkSome("none", "none", 0, Prefix0x \o memo_text)
             ELSE OkNone

\* variant: an address without prefix is returned as it is
ExtractEvmAddressFromMemo_NoPrefix(memo_data) ==
    IF \E i \in DOMAIN memo_data : memo_data[i] = NotUtf8
    THEN OkNone
    ELSE LET memo_text == Trim(memo_data)
         IN  IF Len(memo_text) = AddrLen + 2 /\ StartsWith0x(memo_text)
                    /\ AllHex(SubSeq(memo_text, 3, Len(memo_text)))
             THEN OkSome("none", "none", 0, memo_text)
             ELSE IF Len(memo_text) = AddrLen /\ AllHex(memo_text)
             THEN OkSome("none", "none", 0, memo_text)
             ELSE OkNone

\* extract_evm_address_from_memo
ExtractEvmAddressFromMemo(memo_data) ==
    IF \E i \in DOMAIN memo_data : memo_data[i] = NotUtf8
    THEN OkNone
    ELSE LET memo_text == Trim(memo_data)
         IN  IF Len(memo_text) = AddrLen + 2 /\ StartsWith0x(memo_text)
                    /\ AllHex(SubSeq(memo_text, 3, Len(memo_text)))
             THEN OkSome("none", "none", 0, memo_text)
             ELSE IF Len(memo_text) = AddrLen /\ AllHex(memo_text)
             THEN OkSome("none", "none", 0, Prefix0x \o memo_text)
             ELSE OkNone

\* a CompiledInstruction and a Transaction's message
CompiledInstruction(p, accts, d) ==
    [program_id_index |-> p, accounts |-> accts, data |-> d]

Tx(keys, instrs) == [account_keys |-> keys, instructions |-> instrs]

NoTx == Tx(<<>>, <<>>)

\* account_keys[i] for a u8 index i
KeyAt(keys, i) == keys[i + 1]

\* parse_transfer_transaction
ParseTransferTransaction(transaction) ==
    LET instructions == transaction.instructions
        account_keys == transaction.account_keys
    IN  IF Len(instructions) # 2 THEN OkNone
        ELSE
        LET transfer_instruction == instructions[1]
            memo_instruction == instructions[2]
        IN  IF \/ transfer_instruction.program_id_index >= Len(account_keys)
               \/ memo_instruction.program_id_index >= Len(account_keys)
            THEN ParseErr("Invalid program_id_index in instruction")
            ELSE IF KeyAt(account_keys, transfer_instruction.program_id_index)
                        # SystemProgram
            THEN OkNone
            ELSE IF KeyAt(account_keys, memo_instruction.program_id_index)
                        # MemoProgram
            THEN OkNone
            ELSE
            LET t == DecodeTransfer(transfer_instruction.data)
            IN  IF ~t.ok THEN OkNone
                ELSE IF Len(transfer_instruction.accounts) # 2 THEN OkNone
                ELSE
                LET from_index == transfer_instruction.accounts[1]
                    to_index == transfer_instruction.accounts[2]
                IN  IF from_index >= Len(account_keys)
                           \/ to_index >= Len(account_keys)
                    THEN ParseErr("Invalid account index in transfer instruction")
                    ELSE
                    LET e == ExtractEvmAddressFromMemo(memo_instruction.data)
                    IN  IF e.kind = "Err" THEN e
                        ELSE IF e.kind = "None" THEN OkNone
                        ELSE OkSome(KeyAt(account_keys, from_index),
                                    KeyAt(account_keys, to_index),
                                    t.lamports, e.address)

\* Transaction::new_with_payer compiles the instructions: the payer and the
\* other signers first, then the writable accounts, then the read-only ones,
\* each key once
RECURSIVE Dedup(_, _)
Dedup(ks, seen) ==
    IF ks = <<>> THEN <<>>
    ELSE IF Head(ks) \in seen THEN Dedup(Tail(ks), seen)
    ELSE <<Head(ks)>> \o Dedup(Tail(ks), seen \cup {Head(ks)})

\* the u8 index of key k in the compiled account table
AccountIndex(keys, k) == (CHOOSE i \in DOMAIN keys : keys[i] = k) - 1

CreateErr(m) == [ok |-> FALSE, msg |-> m, tx |-> NoTx]
CreateOk(t) == [ok |-> TRUE, msg |-> "", tx |-> t]
NotCreated == [ok |-> FALSE, msg |-> "none", tx |-> NoTx]

\* create_transfer_with_evm_memo; Transaction::sign succeeds, since from is
\* the one required signer
CreateTransferWithEvmMemo(from, to, amount, evm_address) ==
    IF ~StartsWith0x(evm_address)
           /\ ~(Len(evm_address) = AddrLen /\ AllHex(evm_address))
    THEN CreateErr("Invalid EVM address format")
    ELSE
    LET normalized_evm_address ==
            IF StartsWith0x(evm_address) THEN evm_address
            ELSE Prefix0x \o evm_address
        keys == Dedup(<<from, to, SystemProgram, MemoProgram>>, {})
        transfer_instruction ==
            CompiledInstruction(AccountIndex(keys, SystemProgram),
                                <<AccountIndex(keys, from),
                                  AccountIndex(keys, to)>>,
                                EncodeTransfer(amount))
        memo_instruction ==
            CompiledInstruction(AccountIndex(keys, MemoProgram), <<>>,
                                normalized_evm_address)
    IN  CreateOk(Tx(keys, <<transfer_instruction, memo_instruction>>))

\* the texts the model draws addresses and memos from: a run of hex digits
\* one shorter than an address, of an address's length or one longer, with
\* or without a character that is no hex digit, a "0x" prefix, and spaces
\* around it
HexText(n, b, s) == [i \in 1 .. n |-> Digit0 + ((b + i * s) % 3)]

HexBodies ==
    {HexText(n, b, s) : n \in (AddrLen - 1) .. (AddrLen + 1),
                        b \in 0 .. 2, s \in 0 .. 1}

Spoiled(t, c) == [t EXCEPT ![1] = c]

AddressBodies ==
    HexBodies \cup {Spoiled(h, c) : h \in HexBodies, c \in {NonHex, NotUtf8}}

AddressTexts ==
    {l \o p \o b \o r : l \in {<<>>, <<Space>>}, p \in {<<>>, Prefix0x},
                        b \in AddressBodies, r \in {<<>>, <<Space>>}}
        \cup {<<>>, Prefix0x}

NoArgs == [from |-> "none", to |-> "none", amount |-> 0, address |-> <<>>]

\* the account tables, indices and instructions of the transactions handed
\* to the parser; MaxKeys is the longest table, and the index MaxKeys is out
\* of range for every table
MaxKeys == 4

AccountTables ==
    {<<"P1", "P2", SystemProgram, MemoProgram>>,
     <<"P1", SystemProgram, MemoProgram>>}

Indices == 0 .. MaxKeys

AccountRefs == {<<>>, <<0>>, <<0, 1>>, <<1, MaxKeys>>, <<0, 1, 2>>}

Payloads ==
    {EncodeTransfer(0), EncodeTransfer(MaxAmount), <<TransferTag>>, <<0, 1>>,
     Prefix0x \o HexText(AddrLen, 1, 1), HexText(AddrLen, 0, 1),
     <<Space>> \o Prefix0x \o HexText(AddrLen, 1, 1) \o <<Space>>,
     Prefix0x \o HexText(AddrLen - 1, 1, 1),
     Spoiled(HexText(AddrLen, 0, 1), NotUtf8)}

Instructions ==
    {CompiledInstruction(p, a, d) : p \in Indices, a \in AccountRefs,
                                    d \in Payloads}

\* a third instruction, for the transactions of three
ExtraInstructions ==
    {CompiledInstruction(p, <<>>, <<>>) : p \in {0, MaxKeys}}

\* the instruction lists built of the instructions in is: none, one, two, and
\* a matching transfer and memo followed by a third instruction
InstructionLists(is) ==
    {<<>>}
        \cup {<<i>> : i \in is}
        \cup {<<i, j>> : i \in is, j \in is}
        \cup {<<i, j, k>> : i \in {CompiledInstruction(2, <<0, 1>>,
                                                        EncodeTransfer(1))},
                            j \in {CompiledInstruction(3, <<>>, Prefix0x
                                       \o HexText(AddrLen, 1, 1))},
                            k \in ExtraInstructions}

TransactionsOf(tables, is) ==
    {Tx(k, l) : k \in tables, l \in InstructionLists(is)}

XferParked ==
    /\ xpc = "parked"
    /\ args = NoArgs
    /\ created = NotCreated
    /\ txIn = NoTx
    /\ parsed = NotParsed


\* a call of create_transfer_with_evm_memo with its arguments, or a call of
\* parse_transfer_transaction with a transaction of any origin
XferInit ==
    /\ xpc \in {"create", "parse"}
    /\ created = NotCreated
    /\ parsed = NotParsed
    /\ IF xpc = "create"
       THEN /\ args \in [from : Wallets, to : Pubkeys, amount : 0 .. MaxAmount,
                         address : AddressTexts]
            /\ txIn = NoTx
       ELSE /\ args = NoArgs
            /\ txIn \in TransactionsOf(AccountTables, Instructions)

\* create_transfer_with_evm_memo returns; a transaction it returned is
\* handed to the parser
CreateTransfer ==
    /\ xpc = "create"
    /\ created' = CreateTransferWithEvmMemo(args.from, args.to, args.amount,
                                            args.address)
    /\ IF created'.ok
       THEN xpc' = "parse" /\ txIn' = created'.tx
       ELSE xpc' = "create_err" /\ UNCHANGED txIn
    /\ UNCHANGED <<args, parsed>>

\* parse_transfer_transaction returns
ParseTransfer ==
    /\ xpc = "parse"
    /\ parsed' = ParseTransferTransaction(txIn)
    /\ xpc' = "parsed"
    /\ UNCHANGED <<args, created, txIn>>

(* ------------------- the auth token of a submission -------------------- *)

NoToken == [ok |-> FALSE, iat |-> 0, exp |-> 0, key |-> <<>>]

\* jwt_secret arguments and configured secrets: the empty string, two hex
\* strings and a string that is not hex
SecretTexts == {<<>>, <<"f", "f">>, <<"0", "f">>, <<"g", "0">>}

ConfiguredSecrets == {NoSecret} \cup {<<"Some", t>> : t \in SecretTexts}

\* variant: a token minted earlier is used again
MintToken_Cached(prev, arg, configured, now) ==
    IF prev.ok THEN prev ELSE CreateJwtToken(configured, now)

\* send_and_confirm_transaction_with_driver: the jwt_secret parameter is
\* rebound to rpc_client.get_auth_token_secret(), and create_jwt_token is
\* called with that
MintToken(prev, arg, configured, now) == CreateJwtToken(configured, now)

Submission(c, t, at) == [call |-> c, token |-> t, at |-> at]

AuthParked ==
    /\ aclock = 0
    /\ asecret = NoSecret
    /\ apc = "parked"
    /\ acall = 0
    /\ aentry = "none"
    /\ aarg = <<>>
    /\ atoken = NoToken
    /\ amints = 0
    /\ lastMinted = NoToken
    /\ submissions = <<>>
    /\ aresult = "none"

AuthInit ==
    /\ aclock \in {-1, 0}
    /\ asecret \in ConfiguredSecrets
    /\ apc = "idle"
    /\ acall = 0
    /\ aentry = "none"
    /\ aarg = <<>>
    /\ atoken = NoToken
    /\ amints = 0
    /\ lastMinted = NoToken
    /\ submissions = <<>>
    /\ aresult = "none"

\* time passes
ClockAdvance ==
    /\ aclock < MaxClock
    /\ aclock' = aclock + 1
    /\ UNCHANGED <<asecret, apc, acall, aentry, aarg, atoken, amints,
                   lastMinted, submissions, aresult>>

\* send_and_confirm_transaction / send_and_confirm_transaction_local is
\* called with a jwt_secret and calls send_and_confirm_transaction_with_driver
AuthCall ==
    /\ apc = "idle"
    /\ acall < MaxAuthCalls
    /\ acall' = acall + 1
    /\ aentry' \in Drivers
    /\ aarg' \in SecretTexts
    /\ atoken' = NoToken
    /\ aresult' = "none"
    /\ apc' = "entered"
    /\ UNCHANGED <<aclock, asecret, amints, lastMinted, submissions>>

\* get_auth_token_secret().ok_or_else(..)?, create_jwt_token(..)?
AuthMint ==
    /\ apc = "entered"
    /\ IF asecret = NoSecret
       THEN /\ aresult' = "jwt_not_set"
            /\ apc' = "idle"
            /\ UNCHANGED <<atoken, amints, lastMinted>>
       ELSE LET t == MintToken(lastMinted, aarg, asecret[2], aclock)
            IN  IF t.ok
                THEN /\ atoken' = t
                     /\ amints' = amints + 1
                     /\ lastMinted' = t
                     /\ apc' = "minted"
                     /\ UNCHANGED aresult
                ELSE /\ aresult' = "mint_failed"
                     /\ apc' = "idle"
                     /\ UNCHANGED <<atoken, amints, lastMinted>>
    /\ UNCHANGED <<aclock, asecret, acall, aentry, aarg, submissions>>

\* rpc_client.send_transaction_with_auto_token(transaction, jwt_token)
AuthSubmit ==
    /\ apc = "minted"
    /\ submissions' = Append(submissions, Submission(acall, atoken, aclock))
    /\ \E sent \in BOOLEAN :
           IF sent THEN apc' = "polling" /\ UNCHANGED aresult
           ELSE apc' = "idle" /\ aresult' = "send_failed"
    /\ UNCHANGED <<aclock, asecret, acall, aentry, aarg, atoken, amints,
                   lastMinted>>

\* the polling loop ends: confirmed, rejected, tick failure or timeout
AuthReturn ==
    /\ apc = "polling"
    /\ aresult' \in {"Ok", "rejected", "tick_failed", "timeout"}
    /\ apc' = "idle"
    /\ UNCHANGED <<aclock, asecret, acall, aentry, aarg, atoken, amints,
                   lastMinted, submissions>>

(* ---------------- packets handed over by sigverify -------------------- *)

\* packets of one packet batch
MaxPackets == 2

\* DeserializedPacketError, as ImmutableDeserializedPacket::new returns it
NewErrors ==
    {<<"ShortVecError">>, <<"DeserializationError">>,
     <<"SignatureOverflowed">>, <<"SanitizeError">>,
     <<"PrioritizationFailure">>, <<"VoteTransactionError">>}

PacketFilterFailures == {"ExcessivePrecompiles", "InsufficientComputeLimit"}

\* impl From<PacketFilterFailure> for DeserializedPacketError
Into(f) == <<"FailedFilter", f>>

\* a packet: its discard flag, what ImmutableDeserializedPacket::new makes of
\* it and what packet_filter answers for the deserialized packet
Packet(d, n, f) == [discard |-> d, new |-> n, filter |-> f]

GoodPacket == Packet(FALSE, <<"Ok">>, "Ok")

Packets ==
    {GoodPacket}
        \cup {Packet(FALSE, n, "Ok") : n \in NewErrors}
        \cup {Packet(FALSE, <<"Ok">>, f) : f \in PacketFilterFailures}
        \cup {Packet(TRUE, <<"Ok">>, "Ok"),
              Packet(TRUE, <<"SanitizeError">>, "Ok")}

PacketBatches == SeqsUpTo(Packets, MaxPackets)

\* banking_batches by the number of packet batches in each banking batch
BatchShapes == {<<>>, <<0>>, <<1>>, <<0, 1>>, <<1, 1>>, <<2>>}

DefaultStats ==
    [passed_sigverify_count |-> 0,
     failed_sigverify_count |-> 0,
     failed_sanitization_count |-> 0,
     failed_prioritization_count |-> 0,
     invalid_vote_count |-> 0,
     excessive_precompile_count |-> 0,
     insufficient_compute_limit_count |-> 0]

\* variant: a dropped vote packet is not counted
IncrementErrorCount_VoteUncounted(stats, err) ==
    CASE err[1] \in {"ShortVecError", "DeserializationError",
                     "SignatureOverflowed", "SanitizeError"} ->
             [stats EXCEPT !.failed_sanitization_count = @ + 1]
      [] err[1] = "PrioritizationFailure" ->
             [stats EXCEPT !.failed_prioritization_count = @ + 1]
      [] err[1] = "VoteTransactionError" -> stats
      [] err = Into("ExcessivePrecompiles") ->
             [stats EXCEPT !.excessive_precompile_count = @ + 1]
      [] err = Into("InsufficientComputeLimit") ->
             [stats EXCEPT !.insufficient_compute_limit_count = @ + 1]

\* PacketReceiverStats::increment_error_count; the counters are u64 and
\* saturate, which no number of packets held in memory reaches
IncrementErrorCount(stats, err) ==
    CASE err[1] \in {"ShortVecError", "DeserializationError",
                     "SignatureOverflowed", "SanitizeError"} ->
             [stats EXCEPT !.failed_sanitization_count = @ + 1]
      [] err[1] = "PrioritizationFailure" ->
             [stats EXCEPT !.failed_prioritization_count = @ + 1]
      [] err[1] = "VoteTransactionError" ->
             [stats EXCEPT !.invalid_vote_count = @ + 1]
      [] err = Into("ExcessivePrecompiles") ->
             [stats EXCEPT !.excessive_precompile_count = @ + 1]
      [] err = Into("InsufficientComputeLimit") ->
             [stats EXCEPT !.insufficient_compute_limit_count = @ + 1]

RECURSIVE IndexesFrom(_, _)
IndexesFrom(packet_batch, i) ==
    IF i > Len(packet_batch) THEN <<>>
    ELSE IF ~packet_batch[i].discard
         THEN <<i>> \o IndexesFrom(packet_batch, i + 1)
         ELSE IndexesFrom(packet_batch, i + 1)

\* generate_packet_indexes: the indexes of the packets not marked discard
GeneratePacketIndexes(packet_batch) == IndexesFrom(packet_batch, 1)

\* deserialize_packets, collected: the packets that deserialize and pass the
\* filter, and the stats after the others were counted
RECURSIVE DeserializePackets(_, _, _)
DeserializePackets(packet_batch, packet_indexes, stats) ==
    IF packet_indexes = <<>> THEN [stats |-> stats, out |-> <<>>]
    ELSE LET packet == packet_batch[Head(packet_indexes)]
             here ==
                 IF packet.new = <<"Ok">>
                 THEN IF packet.filter = "Ok"
                      THEN [stats |-> stats, out |-> <<packet>>]
                      ELSE [stats |-> IncrementErrorCount(stats,
                                          Into(packet.filter)),
                            out |-> <<>>]
                 ELSE [stats |-> IncrementErrorCount(stats, packet.new),
                       out |-> <<>>]
             rest == DeserializePackets(packet_batch, Tail(packet_indexes),
                                        here.stats)
         IN  [stats |-> rest.stats, out |-> here.out \o rest.out]

\* usize::saturating_sub
SaturatingSub(a, b) == IF a >= b THEN a - b ELSE 0

CountPackets(packet_batch, P(_)) ==
    Cardinality({i \in 1 .. Len(packet_batch) : P(packet_batch[i])})

PktParked ==
    /\ pktpc = "parked"
    /\ pktShape = <<>>
    /\ packetBatchesLeft = 0
    /\ packet_stats = DefaultStats
    /\ deserialized_packets = <<>>
    /\ pktTotal = 0
    /\ pktDiscarded = 0
    /\ pktGood = 0

\* deserialize_and_collect_packets is entered with banking_batches
PktInit ==
    /\ pktpc = "loop"
    /\ pktShape \in BatchShapes
    /\ packetBatchesLeft = 0
    /\ packet_stats = DefaultStats
    /\ deserialized_packets = <<>>
    /\ pktTotal = 0
    /\ pktDiscarded = 0
    /\ pktGood = 0

\* for (i, banking_batch) in banking_batches.iter().enumerate()
NextBankingBatch ==
    /\ pktpc = "loop"
    /\ packetBatchesLeft = 0
    /\ pktShape # <<>>
    /\ packetBatchesLeft' = Head(pktShape)
    /\ pktShape' = Tail(pktShape)
    /\ UNCHANGED <<pktpc, packet_stats, deserialized_packets, pktTotal,
                   pktDiscarded, pktGood>>

\* for (j, packet_batch) in banking_batch.iter().enumerate(): the body
NextPacketBatch ==
    /\ pktpc = "loop"
    /\ packetBatchesLeft > 0
    /\ \E packet_batch \in PacketBatches :
           LET packet_indexes == GeneratePacketIndexes(packet_batch)
               counted ==
                   [packet_stats EXCEPT
                        !.passed_sigverify_count = @ + Len(packet_indexes),
                        !.failed_sigverify_count =
                            @ + SaturatingSub(Len(packet_batch),
                                              Len(packet_indexes))]
               deserialized == DeserializePackets(packet_batch,
                                                  packet_indexes, counted)
           IN  /\ packet_stats' = deserialized.stats
               /\ deserialized_packets' =
                      deserialized_packets \o deserialized.out
               /\ pktTotal' = pktTotal + Len(packet_batch)
               /\ pktDiscarded' =
                      pktDiscarded
                          + CountPackets(packet_batch, LAMBDA p : p.discard)
               /\ pktGood' =
                      pktGood
                          + CountPackets(packet_batch,
                                         LAMBDA p : p = GoodPacket)
    /\ packetBatchesLeft' = packetBatchesLeft - 1
    /\ UNCHANGED <<pktpc, pktShape>>

\* ReceivePacketResults { deserialized_packets, packet_stats }
CollectReturn ==
    /\ pktpc = "loop"
    /\ packetBatchesLeft = 0
    /\ pktShape = <<>>
    /\ pktpc' = "returned"
    /\ UNCHANGED <<pktShape, packetBatchesLeft, packet_stats,
                   deserialized_packets, pktTotal, pktDiscarded, pktGood>>

(* ------------------- the control server's handler ---------------------- *)

\* ticks after send_transaction
PostTicks == 3

\* max_retries of the handler's polling loop
EngineMaxRetries == 2

\* largest ticks_per_slot
MaxTicksPerSlot == 2

EngineHandler == "E1"

Methods ==
    {"engine_tick", "engine_step_slot", "engine_send_and_confirm_tx",
     "unknown"}

\* params[0]: not base64, base64 of bytes that are no transaction, base64 of
\* a serialized transaction
Params == {"not_base64", "not_transaction", "transaction"}

EngParked ==
    /\ epc = "parked"
    /\ emethod = "none"
    /\ eparam = "none"
    /\ ticks_per_slot = 0
    /\ ephase = "none"
    /\ eleft = 0
    /\ eattempt = 0
    /\ edispatched = FALSE
    /\ estatus = "None"
    /\ eSawRejected = FALSE
    /\ esends = 0
    /\ esendOk = 0
    /\ edone = 0
    /\ eanswer = "none"

\* handle is entered with a request
EngInit ==
    /\ epc = "match"
    /\ emethod \in Methods
    /\ eparam \in (IF emethod = "engine_send_and_confirm_tx" THEN Params
                   ELSE {"none"})
    /\ ticks_per_slot \in 0 .. MaxTicksPerSlot
    /\ ephase = "none"
    /\ eleft = 0
    /\ eattempt = 0
    /\ edispatched = FALSE
    /\ estatus = "None"
    /\ eSawRejected = FALSE
    /\ esends = 0
    /\ esendOk = 0
    /\ edone = 0
    /\ eanswer = "none"

\* match method, up to the first send or the first response;
\* engine_send_and_confirm_tx: base64::decode(b64)
HandlerMatch ==
    /\ epc = "match"
    /\ CASE emethod = "engine_tick" ->
                epc' = "send" /\ ephase' = "tick" /\ eleft' = 1
                    /\ UNCHANGED eanswer
         [] emethod = "engine_step_slot" ->
                IF ticks_per_slot = 0
                THEN epc' = "answered" /\ eanswer' = "ok"
                         /\ UNCHANGED <<ephase, eleft>>
                ELSE epc' = "send" /\ ephase' = "step"
                         /\ eleft' = ticks_per_slot /\ UNCHANGED eanswer
         [] emethod = "engine_send_and_confirm_tx" ->
                IF eparam = "not_base64"
                THEN epc' = "answered" /\ eanswer' = "invalid base64"
                         /\ UNCHANGED <<ephase, eleft>>
                ELSE epc' = "send" /\ ephase' = "pre" /\ eleft' = 1
                         /\ UNCHANGED eanswer
         [] OTHER ->
                epc' = "answered" /\ eanswer' = "method not found"
                    /\ UNCHANGED <<ephase, eleft>>
    /\ UNCHANGED <<emethod, eparam, ticks_per_slot, eattempt, edispatched,
                   estatus, eSawRejected, esends, esendOk, edone>>
    /\ UNCHANGED tickVars

\* let _ = ctx.tick_sender.send(())
HandlerTickSend ==
    /\ epc = "send"
    /\ LET s == ChanSend(reqQ, validatorUp, EngineHandler)
       IN  /\ reqQ' = s.q
           /\ esendOk' = IF s.ok THEN esendOk + 1 ELSE esendOk
    /\ esends' = esends + 1
    /\ epc' = "recv"
    /\ UNCHANGED <<emethod, eparam, ticks_per_slot, ephase, eleft, eattempt,
                   edispatched, estatus, eSawRejected, edone, eanswer>>
    /\ UNCHANGED <<installed, validatorUp, doneQ, tickCount, tpc, calls,
                   served, returned, lastDone, lockReaders, tickErr,
                   installedInFlight, ipcResps>>

\* let _ = ctx.tick_done_receiver.recv(), and what follows the pair at its
\* site: the next pair of the for loop, the "ok" response, bincode, the
\* polling loop, or sleep and the next iteration or the timeout response
HandlerTickRecv ==
    /\ epc = "recv"
    /\ LET r == RecvReady(doneQ, validatorUp)
       IN  /\ r # "block"
           /\ IF r = "msg"
              THEN doneQ' = Tail(doneQ) /\ edone' = edone + 1
              ELSE UNCHANGED <<doneQ, edone>>
    /\ IF ephase = "retry"
       THEN /\ eattempt' = eattempt + 1
            /\ UNCHANGED eleft
            /\ IF eattempt' = EngineMaxRetries
               THEN epc' = "answered" /\ eanswer' = "confirmation timeout"
               ELSE epc' = "poll" /\ UNCHANGED eanswer
       ELSE /\ eleft' = eleft - 1
            /\ UNCHANGED eattempt
            /\ IF eleft' > 0
               THEN epc' = "send" /\ UNCHANGED eanswer
               ELSE CASE ephase \in {"tick", "step"} ->
                             epc' = "answered" /\ eanswer' = "ok"
                      [] ephase = "pre" ->
                             epc' = "deserialize" /\ UNCHANGED eanswer
                      [] ephase = "post" ->
                             epc' = "poll" /\ UNCHANGED eanswer
    /\ UNCHANGED <<emethod, eparam, ticks_per_slot, ephase, edispatched,
                   estatus, eSawRejected, esends, esendOk>>
    /\ UNCHANGED <<installed, validatorUp, reqQ, tickCount, tpc, calls,
                   served, returned, lastDone, lockReaders, tickErr,
                   installedInFlight, ipcResps>>

\* bincode::deserialize(&raw)
HandlerDeserialize ==
    /\ epc = "deserialize"
    /\ IF eparam = "transaction"
       THEN epc' = "send_transaction" /\ UNCHANGED eanswer
       ELSE epc' = "answered" /\ eanswer' = "invalid tx encoding"
    /\ UNCHANGED <<emethod, eparam, ticks_per_slot, ephase, eleft, eattempt,
                   edispatched, estatus, eSawRejected, esends, esendOk,
                   edone>>
    /\ UNCHANGED tickVars

\* ctx.rpc_client.send_transaction(&tx)
HandlerSendTransaction ==
    /\ epc = "send_transaction"
    /\ \E sent \in BOOLEAN :
           IF sent
           THEN /\ edispatched' = TRUE
                /\ epc' = "send"
                /\ ephase' = "post"
                /\ eleft' = PostTicks
                /\ UNCHANGED eanswer
           ELSE /\ epc' = "answered"
                /\ eanswer' = "send failed"
                /\ UNCHANGED <<edispatched, ephase, eleft>>
    /\ UNCHANGED <<emethod, eparam, ticks_per_slot, eattempt, estatus,
                   eSawRejected, esends, esendOk, edone>>
    /\ UNCHANGED tickVars

\* one iteration of the polling loop up to its send:
\* if let Ok(Some(Ok(_))) = ctx.rpc_client.get_signature_status(&sig)
HandlerPoll ==
    /\ epc = "poll"
    /\ \E r \in {estatus, "Err"} :
           /\ eSawRejected' = (eSawRejected \/ r = "Some(Err)")
           /\ IF r = "Some(Ok)"
              THEN epc' = "answered" /\ eanswer' = "signature"
                       /\ UNCHANGED ephase
              ELSE epc' = "send" /\ ephase' = "retry" /\ UNCHANGED eanswer
    /\ UNCHANGED <<emethod, eparam, ticks_per_slot, eleft, eattempt,
                   edispatched, estatus, esends, esendOk, edone>>
    /\ UNCHANGED tickVars

\* the validator takes a tick request; a transaction it holds may be
\* processed with it, and its status stays as processed
HandlerValidatorTick ==
    /\ ValidatorTick
    /\ estatus' \in (IF edispatched /\ estatus = "None"
                     THEN {"None", "Some(Ok)", "Some(Err)"}
                     ELSE {estatus})
    /\ UNCHANGED <<epc, emethod, eparam, ticks_per_slot, ephase, eleft,
                   eattempt, edispatched, eSawRejected, esends, esendOk,
                   edone, eanswer>>

HandlerValidatorStop ==
    /\ ValidatorStop
    /\ UNCHANGED engVars

(* --------------------- distribute_reward_to_account -------------------- *)

\* the tick calls of one function, in order
RewardTickSites == <<"tick1", "tick2", "tick3", "tick4">>

\* what follows each position when it succeeds
RewardAfter(p) ==
    CASE p = "mint"  -> "tick1"
      [] p = "tick1" -> "tick2"
      [] p = "tick2" -> "rpc"
      [] p = "rpc"   -> "tick3"
      [] p = "tick3" -> "tick4"
      [] p = "tick4" -> "done"

\* the tick call of the function's position: the first to the fourth
TickNumber(p) == CHOOSE k \in 1 .. 4 : RewardTickSites[k] = p

\* LocalTickClient::trigger_tick of a tick that goes as resp: Ok(()) when the
\* rendezvous completes, Err otherwise
LocalTriggerTick(resp) == IF resp = "OkTrue" THEN "Ok" ELSE "Err"

\* the tick statement of each function: ipc_client.tick()? calls
\* IpcClient::tick itself and drops the bool, driver.trigger_tick()? goes
\* through the TickDriver
RewardTickResult(v, resp) ==
    IF v = "ipc"
    THEN IF resp = "TransportErr" THEN "Err" ELSE "Ok"
    ELSE LocalTriggerTick(resp)

RewParked ==
    /\ rwSecret = NoSecret
    /\ rwNow = 0
    /\ rwTicks = <<>>
    /\ rwRpc = "none"
    /\ rwpc = [v \in Drivers |-> "parked"]
    /\ rwEvents = [v \in Drivers |-> <<>>]
    /\ rwResult = [v \in Drivers |-> "none"]

\* distribute_reward_to_account and distribute_reward_to_account_local are
\* called on the same client with ticks and an RPC that go the same way
RewInit ==
    /\ rwSecret \in ConfiguredSecrets
    /\ rwNow \in ClockValues
    /\ rwTicks \in [1 .. 4 -> IpcTickResults]
    /\ rwRpc \in {"Ok", "Err"}
    /\ rwpc = [v \in Drivers |-> "mint"]
    /\ rwEvents = [v \in Drivers |-> <<>>]
    /\ rwResult = [v \in Drivers |-> "none"]

\* get_auth_token_secret().ok_or_else(..)?, create_jwt_token(..)?
RewardMint(v) ==
    /\ rwpc[v] = "mint"
    /\ IF rwSecret = NoSecret
       THEN /\ rwpc' = [rwpc EXCEPT ![v] = "done"]
            /\ rwResult' = [rwResult EXCEPT ![v] = "jwt_not_set"]
       ELSE IF CreateJwtToken(rwSecret[2], rwNow).ok
            THEN /\ rwpc' = [rwpc EXCEPT ![v] = RewardAfter("mint")]
                 /\ UNCHANGED rwResult
            ELSE /\ rwpc' = [rwpc EXCEPT ![v] = "done"]
                 /\ rwResult' = [rwResult EXCEPT ![v] = "mint_failed"]
    /\ UNCHANGED <<rwSecret, rwNow, rwTicks, rwRpc, rwEvents>>

\* ipc_client.tick()? / driver.trigger_tick()?; after the fourth, Ok(response)
RewardTick(v) ==
    /\ rwpc[v] \in {"tick1", "tick2", "tick3", "tick4"}
    /\ rwEvents' = [rwEvents EXCEPT ![v] = Append(@, "tick")]
    /\ IF RewardTickResult(v, rwTicks[TickNumber(rwpc[v])]) = "Ok"
       THEN /\ rwpc' = [rwpc EXCEPT ![v] = RewardAfter(rwpc[v])]
            /\ rwResult' = [rwResult EXCEPT
                               ![v] = IF rwpc[v] = "tick4" THEN "Ok" ELSE @]
       ELSE /\ rwpc' = [rwpc EXCEPT ![v] = "done"]
            /\ rwResult' = [rwResult EXCEPT ![v] = "tick_failed"]
    /\ UNCHANGED <<rwSecret, rwNow, rwTicks, rwRpc>>

\* rpc_client.distribute_reward_to_account(..).map_err(..)?
RewardRpc(v) ==
    /\ rwpc[v] = "rpc"
    /\ rwEvents' = [rwEvents EXCEPT ![v] = Append(@, "reward_rpc")]
    /\ IF rwRpc = "Ok"
       THEN /\ rwpc' = [rwpc EXCEPT ![v] = RewardAfter("rpc")]
            /\ UNCHANGED rwResult
       ELSE /\ rwpc' = [rwpc EXCEPT ![v] = "done"]
            /\ rwResult' = [rwResult EXCEPT ![v] = "rpc_failed"]
    /\ UNCHANGED <<rwSecret, rwNow, rwTicks, rwRpc>>

(* ---------------- the Bridge on a manually ticked validator ------------ *)

\* ticks another issuer drives while the Bridge operation runs
MaxManualTicks == 1

ManParked ==
    /\ tickIssuer = FALSE
    /\ mpending = FALSE
    /\ mstatus = "None"

\* a validator whose clock stands until a tick is requested, with or without
\* somebody requesting ticks
ManInit ==
    /\ tickIssuer \in BOOLEAN
    /\ mpending = FALSE
    /\ mstatus = "None"

\* the latest status query of the running confirm_transaction call answers
\* with the transaction's status on the validator, or fails
PollAgrees ==
    polls' # polls => polls'[Len(polls')] \in {mstatus, "QueryErr"}

\* the transaction handed to the TPU client reaches the validator or not; its
\* status is missing until the validator processes it
Dispatched ==
    /\ mpending' = (blog'[Len(blog')].res = "sent")
    /\ mstatus' = "None"
    /\ UNCHANGED tickIssuer

\* another issuer's tick request is served: the clock advances by one tick
\* and a transaction the validator holds may be processed
IssuerTick ==
    /\ tickIssuer
    /\ tickCount < MaxManualTicks
    /\ tickCount' = tickCount + 1
    /\ mstatus' \in (IF mpending /\ mstatus = "None"
                     THEN {"None", "SomeOk", "SomeErr"}
                     ELSE {mstatus})
    /\ UNCHANGED <<tickIssuer, mpending>>
    /\ UNCHANGED <<installed, validatorUp, reqQ, doneQ, tpc, calls, served,
                   returned, lastDone, lockReaders, tickErr,
                   installedInFlight, ipcResps>>

LateParked == PktParked /\ EngParked /\ RewParked /\ ManParked

OtherParked ==
    CodecParked /\ SockParked /\ XferParked /\ AuthParked /\ LateParked

(* ---------------------------- specifications --------------------------- *)

\* the retry loop's own steps, its in-process trigger_tick included
LoopNext ==
    \/ (Mint /\ UNCHANGED restVars)
    \/ (Dispatch /\ UNCHANGED restVars)
    \/ (Poll /\ UNCHANGED restVars)
    \/ (TriggerTickIpc /\ UNCHANGED restVars)
    \/ (TriggerTickLocal /\ UNCHANGED restVars)
    \/ (ReadLock(LoopCaller) /\ UNCHANGED <<retryVars, restVars>>)
    \/ (GetChannels(LoopCaller) /\ UNCHANGED <<retryVars, restVars>>)
    \/ (TickSend(LoopCaller) /\ UNCHANGED <<retryVars, restVars>>)
    \/ (TickRecv(LoopCaller) /\ UNCHANGED <<retryVars, restVars>>)
    \/ (TriggerTickLocalReturn /\ UNCHANGED restVars)
    \/ (Sleep /\ UNCHANGED restVars)
    \/ (Timeout /\ UNCHANGED restVars)

ValidatorNext == ValidatorTick /\ UNCHANGED <<retryVars, restVars>>

InitRetry == RetryInit /\ TickInit /\ BridgeParked /\ IpcParked /\ OtherParked

NextRetry ==
    \/ LoopNext
    \/ ValidatorNext
    \/ (SetLocalTickChannels /\ UNCHANGED <<retryVars, restVars>>)
    \/ (ValidatorStop /\ UNCHANGED <<retryVars, restVars>>)

SpecRetry == InitRetry /\ [][NextRetry]_vars

\* every call of the loop returns, and the validator acknowledges the
\* requests it holds
FairSpecRetry ==
    InitRetry /\ [][NextRetry]_vars /\ WF_vars(LoopNext) /\ WF_vars(ValidatorNext)

\* the retry loop is parked: only the channel pair's callers run
RetryParked ==
    /\ driver = "local"
    /\ max_retries = 0
    /\ secret = NoSecret
    /\ pc = "parked"
    /\ attempt = 0
    /\ signature = "none"
    /\ jwt_token = <<>>
    /\ result = NoResult
    /\ log = <<>>

InitTick == RetryParked /\ TickInit /\ BridgeParked /\ IpcParked /\ OtherParked

NextTick ==
    \/ (SetLocalTickChannels /\ UNCHANGED <<retryVars, restVars>>)
    \/ (ValidatorTick /\ UNCHANGED <<retryVars, restVars>>)
    \/ (ValidatorStop /\ UNCHANGED <<retryVars, restVars>>)
    \/ \E c \in FreeCallers :
         \/ (TickCall(c) /\ UNCHANGED <<retryVars, restVars>>)
         \/ (ReadLock(c) /\ UNCHANGED <<retryVars, restVars>>)
         \/ (GetChannels(c) /\ UNCHANGED <<retryVars, restVars>>)
         \/ (TickSend(c) /\ UNCHANGED <<retryVars, restVars>>)
         \/ (TickRecv(c) /\ UNCHANGED <<retryVars, restVars>>)
         \/ (EngineSend(c) /\ UNCHANGED <<retryVars, restVars>>)
         \/ (EngineRecv(c) /\ UNCHANGED <<retryVars, restVars>>)

SpecTick == InitTick /\ [][NextTick]_vars

\* one Bridge operation, from its call to its return
InitBridge == RetryParked /\ TickInit /\ BridgeInit /\ IpcParked /\ OtherParked

NextBridge ==
    \/ (BatchLoop /\ UNCHANGED <<otherVars, retryVars, tickVars, ipcVars>>)
    \/ (BatchFetch /\ UNCHANGED <<otherVars, retryVars, tickVars, ipcVars>>)
    \/ (BatchSign /\ UNCHANGED <<otherVars, retryVars, tickVars, ipcVars>>)
    \/ (BatchSend /\ UNCHANGED <<otherVars, retryVars, tickVars, ipcVars>>)
    \/ (BatchSignature /\ UNCHANGED <<otherVars, retryVars, tickVars, ipcVars>>)
    \/ (ConfirmTransaction /\ UNCHANGED <<otherVars, retryVars, tickVars, ipcVars>>)
    \/ (BatchMatch /\ UNCHANGED <<otherVars, retryVars, tickVars, ipcVars>>)
    \/ (TransferFetch /\ UNCHANGED <<otherVars, retryVars, tickVars, ipcVars>>)
    \/ (TransferSend /\ UNCHANGED <<otherVars, retryVars, tickVars, ipcVars>>)

SpecBridge == InitBridge /\ [][NextBridge]_vars

\* one connection of the IpcServer, from accept to the end of its task
InitIpc == RetryParked /\ TickInit /\ BridgeParked /\ IpcInit /\ OtherParked

NextIpc ==
    \/ (ClientWrite /\ UNCHANGED <<otherVars, retryVars, tickVars, bridgeVars>>)
    \/ (ClientClose /\ UNCHANGED <<otherVars, retryVars, tickVars, bridgeVars>>)
    \/ (ClientConnect /\ UNCHANGED <<otherVars, retryVars, tickVars, bridgeVars>>)
    \/ (ClientSendBatch /\ UNCHANGED <<otherVars, retryVars, tickVars, bridgeVars>>)
    \/ (ClientReadResponse /\ UNCHANGED <<otherVars, retryVars, tickVars, bridgeVars>>)
    \/ (HandleEof /\ UNCHANGED <<otherVars, retryVars, tickVars>>)
    \/ (ReadLength /\ UNCHANGED <<otherVars, retryVars, tickVars>>)
    \/ (ReadPayload /\ UNCHANGED <<otherVars, retryVars, tickVars>>)
    \/ (HandleFrame /\ UNCHANGED <<otherVars, retryVars, tickVars>>)
    \/ (BatchResponse /\ UNCHANGED <<otherVars, retryVars, tickVars>>)
    \/ (TaskPanic /\ UNCHANGED <<otherVars, retryVars, tickVars>>)
    \/ (BatchLoop /\ UNCHANGED <<otherVars, retryVars, tickVars, ipcVars>>)
    \/ (BatchFetch /\ UNCHANGED <<otherVars, retryVars, tickVars, ipcVars>>)
    \/ (BatchSign /\ UNCHANGED <<otherVars, retryVars, tickVars, ipcVars>>)
    \/ (BatchSend /\ UNCHANGED <<otherVars, retryVars, tickVars, ipcVars>>)
    \/ (BatchSignature /\ UNCHANGED <<otherVars, retryVars, tickVars, ipcVars>>)
    \/ (ConfirmTransaction /\ UNCHANGED <<otherVars, retryVars, tickVars, ipcVars>>)
    \/ (BatchMatch /\ UNCHANGED <<otherVars, retryVars, tickVars, ipcVars>>)

SpecIpc == InitIpc /\ [][NextIpc]_vars

\* one frame, from the writer's serialize to the reader's deserialize
InitCodec ==
    /\ RetryParked /\ TickInit /\ BridgeParked /\ IpcParked
    /\ CodecInit /\ SockParked /\ XferParked /\ AuthParked
    /\ LateParked

NextCodec ==
    \/ (WriteFrame
           /\ UNCHANGED <<retryVars, tickVars, bridgeVars, ipcVars, sockVars,
                        xferVars, authVars, lateVars>>)
    \/ (ReadFrameLen
           /\ UNCHANGED <<retryVars, tickVars, bridgeVars, ipcVars, sockVars,
                        xferVars, authVars, lateVars>>)
    \/ (ReadFrameBody
           /\ UNCHANGED <<retryVars, tickVars, bridgeVars, ipcVars, sockVars,
                        xferVars, authVars, lateVars>>)
    \/ (DecodeFrame
           /\ UNCHANGED <<retryVars, tickVars, bridgeVars, ipcVars, sockVars,
                        xferVars, authVars, lateVars>>)

SpecCodec == InitCodec /\ [][NextCodec]_vars

\* the socket path and the IpcServer instances configured with it
InitSock ==
    /\ RetryParked /\ TickInit /\ BridgeParked /\ IpcParked
    /\ CodecParked /\ SockInit /\ XferParked /\ AuthParked
    /\ LateParked

NextSock ==
    \E s \in Servers :
        \/ (StartRemove(s)
               /\ UNCHANGED <<retryVars, tickVars, bridgeVars, ipcVars,
                            codecVars, xferVars, authVars, lateVars>>)
        \/ (StartBind(s)
               /\ UNCHANGED <<retryVars, tickVars, bridgeVars, ipcVars,
                            codecVars, xferVars, authVars, lateVars>>)
        \/ (ServerStop(s)
               /\ UNCHANGED <<retryVars, tickVars, bridgeVars, ipcVars,
                            codecVars, xferVars, authVars, lateVars>>)
        \/ (ServerDrop(s)
               /\ UNCHANGED <<retryVars, tickVars, bridgeVars, ipcVars,
                            codecVars, xferVars, authVars, lateVars>>)

SpecSock == InitSock /\ [][NextSock]_vars

\* one call of create_transfer_with_evm_memo followed by the parser, or one
\* call of parse_transfer_transaction
InitXfer ==
    /\ RetryParked /\ TickInit /\ BridgeParked /\ IpcParked
    /\ CodecParked /\ SockParked /\ XferInit /\ AuthParked
    /\ LateParked

NextXfer ==
    \/ (CreateTransfer
           /\ UNCHANGED <<retryVars, tickVars, bridgeVars, ipcVars, codecVars,
                          sockVars, authVars, lateVars>>)
    \/ (ParseTransfer
           /\ UNCHANGED <<retryVars, tickVars, bridgeVars, ipcVars, codecVars,
                          sockVars, authVars, lateVars>>)

SpecXfer == InitXfer /\ [][NextXfer]_vars

\* calls of send_and_confirm_transaction on one RpcClient, as far as the
\* auth token goes
InitAuth ==
    /\ RetryParked /\ TickInit /\ BridgeParked /\ IpcParked
    /\ CodecParked /\ SockParked /\ XferParked /\ AuthInit
    /\ LateParked

nonAuthVars == <<retryVars, tickVars, bridgeVars, ipcVars, codecVars, sockVars,
                xferVars, lateVars>>

NextAuth ==
    \/ (ClockAdvance /\ UNCHANGED nonAuthVars)
    \/ (AuthCall /\ UNCHANGED nonAuthVars)
    \/ (AuthMint /\ UNCHANGED nonAuthVars)
    \/ (AuthSubmit /\ UNCHANGED nonAuthVars)
    \/ (AuthReturn /\ UNCHANGED nonAuthVars)

SpecAuth == InitAuth /\ [][NextAuth]_vars

\* one call of deserialize_and_collect_packets
InitPkt ==
    /\ RetryParked /\ TickInit /\ BridgeParked /\ IpcParked
    /\ CodecParked /\ SockParked /\ XferParked /\ AuthParked /\ PktInit
    /\ EngParked /\ RewParked /\ ManParked

nonPktVars == <<retryVars, tickVars, bridgeVars, ipcVars, codecVars, sockVars,
               xferVars, authVars, engVars, rewVars, manVars>>

NextPkt ==
    \/ (NextBankingBatch /\ UNCHANGED nonPktVars)
    \/ (NextPacketBatch /\ UNCHANGED nonPktVars)
    \/ (CollectReturn /\ UNCHANGED nonPktVars)

SpecPkt == InitPkt /\ [][NextPkt]_vars

\* one request to the control server, and the validator
InitEng ==
    /\ RetryParked /\ TickInit /\ BridgeParked /\ IpcParked
    /\ CodecParked /\ SockParked /\ XferParked /\ AuthParked /\ PktParked
    /\ EngInit /\ RewParked /\ ManParked

nonEngVars == <<retryVars, bridgeVars, ipcVars, codecVars, sockVars,
               xferVars, authVars, pktVars, rewVars, manVars>>

NextEng ==
    \/ (HandlerMatch /\ UNCHANGED nonEngVars)
    \/ (HandlerTickSend /\ UNCHANGED nonEngVars)
    \/ (HandlerTickRecv /\ UNCHANGED nonEngVars)
    \/ (HandlerDeserialize /\ UNCHANGED nonEngVars)
    \/ (HandlerSendTransaction /\ UNCHANGED nonEngVars)
    \/ (HandlerPoll /\ UNCHANGED nonEngVars)
    \/ (HandlerValidatorTick /\ UNCHANGED nonEngVars)
    \/ (HandlerValidatorStop /\ UNCHANGED nonEngVars)

SpecEng == InitEng /\ [][NextEng]_vars

\* the two reward functions on the same inputs
InitRew ==
    /\ RetryParked /\ TickInit /\ BridgeParked /\ IpcParked
    /\ CodecParked /\ SockParked /\ XferParked /\ AuthParked /\ PktParked
    /\ EngParked /\ RewInit /\ ManParked

nonRewVars == <<retryVars, tickVars, bridgeVars, ipcVars, codecVars, sockVars,
               xferVars, authVars, pktVars, engVars, manVars>>

NextRew ==
    \E v \in Drivers :
        \/ (RewardMint(v) /\ UNCHANGED nonRewVars)
        \/ (RewardTick(v) /\ UNCHANGED nonRewVars)
        \/ (RewardRpc(v) /\ UNCHANGED nonRewVars)

SpecRew == InitRew /\ [][NextRew]_vars

\* one Bridge operation against a validator that ticks on request only
InitMan ==
    /\ RetryParked /\ TickInit /\ BridgeInit /\ IpcParked
    /\ CodecParked /\ SockParked /\ XferParked /\ AuthParked /\ PktParked
    /\ EngParked /\ RewParked /\ ManInit

nonManVars == <<retryVars, ipcVars, codecVars, sockVars, xferVars, authVars,
               pktVars, engVars, rewVars>>

NextMan ==
    \/ (BatchLoop /\ UNCHANGED <<tickVars, manVars, nonManVars>>)
    \/ (BatchFetch /\ UNCHANGED <<tickVars, manVars, nonManVars>>)
    \/ (BatchSign /\ UNCHANGED <<tickVars, manVars, nonManVars>>)
    \/ (BatchSend /\ Dispatched /\ UNCHANGED <<tickVars, nonManVars>>)
    \/ (BatchSignature /\ UNCHANGED <<tickVars, manVars, nonManVars>>)
    \/ (ConfirmTransaction /\ PollAgrees
           /\ UNCHANGED <<tickVars, manVars, nonManVars>>)
    \/ (BatchMatch /\ UNCHANGED <<tickVars, manVars, nonManVars>>)
    \/ (TransferFetch /\ UNCHANGED <<tickVars, manVars, nonManVars>>)
    \/ (TransferSend /\ Dispatched /\ UNCHANGED <<tickVars, nonManVars>>)
    \/ (IssuerTick /\ UNCHANGED <<bridgeVars, nonManVars>>)

SpecMan == InitMan /\ [][NextMan]_vars

(* ------------------------------ claims --------------------------------- *)

CountEv(e) == Cardinality({i \in DOMAIN log : log[i].ev = e})
CountTickOk ==
    Cardinality({i \in DOMAIN log : log[i].ev = "tick_ret" /\ log[i].res = "Ok"})
AllPollsNone == \A i \in DOMAIN log : log[i].ev = "poll" => log[i].res = "None"
AllTicksOk == \A i \in DOMAIN log : log[i].ev = "tick_ret" => log[i].res = "Ok"
IsHexSecret(s) == Len(s) % 2 = 0 /\ \A i \in 1..Len(s) : s[i] \in {"0", "f"}

\* C1: a status poll that returns an on-chain rejection is the last call the
\* function issues: it has returned the rejection as an error, and no later
\* trigger_tick or status poll exists, whatever budget is left.
C1_RejectionTerminal ==
    \A i \in DOMAIN log :
        (log[i].ev = "poll" /\ log[i].res = "SomeErr")
        => /\ i = Len(log)
           /\ pc = "done"
           /\ result = Returned("Err", "tx_failed", signature, log[i].att)
           /\ tpc[LoopCaller] = "idle"

C1_Witness ==
    /\ pc = "done"
    /\ result.why = "tx_failed"
    /\ result.attempts = 2
    /\ max_retries = 3

\* C2: the function returns Ok(signature) only after a status poll for that
\* very signature, the one dispatch returned, answered Some(Ok); every poll
\* asks for the dispatched signature.
C2_NoFalsePositive ==
    /\ \A i \in DOMAIN log : log[i].ev = "poll" => log[i].sig = signature
    /\ result.kind = "Ok"
       => /\ pc = "done"
          /\ result.sig = signature
          /\ log[1] = Event("dispatch", result.sig, "Ok", 0)
          /\ log[Len(log)] = Event("poll", result.sig, "SomeOk", result.attempts)

C2_Witness ==
    /\ pc = "done"
    /\ result.kind = "Ok"
    /\ \E i \in DOMAIN log : log[i].ev = "poll" /\ log[i].res = "None"
    /\ \E i \in DOMAIN log : log[i].ev = "poll" /\ log[i].res = "QueryErr"

\* C3: when dispatch succeeded, every poll answered None and every tick
\* succeeded, a finished run has issued exactly max_retries polls and exactly
\* max_retries ticks and has returned the timeout error that names the
\* signature and max_retries.
C3_BudgetExhaustion ==
    (pc = "done" /\ signature # "none" /\ AllPollsNone /\ AllTicksOk)
    => /\ result = Returned("Err", "timeout", signature, max_retries)
       /\ CountEv("poll") = max_retries
       /\ CountEv("tick") = max_retries
       /\ CountTickOk = max_retries
       /\ driver = "local" => tickCount = max_retries

C3_Witness ==
    /\ pc = "done"
    /\ result.why = "timeout"
    /\ max_retries = 3
    /\ CountEv("poll") = 3
    /\ CountTickOk = 3
    /\ AllPollsNone

C5_DispatchOnce ==
    /\ \A i \in DOMAIN log : log[i].ev = "dispatch" => i = 1
    /\ (CountEv("poll") + CountEv("tick") > 0) => log[1] = Event("dispatch", signature, "Ok", 0)
    /\ (\E i \in DOMAIN log : log[i].ev = "dispatch" /\ log[i].res = "Err")
       => /\ pc = "done"
          /\ result = Returned("Err", "send_failed", "none", 0)
          /\ Len(log) = 1
          /\ tickCount = 0

C5_Witness ==
    /\ pc = "done"
    /\ result.why = "send_failed"
    /\ max_retries > 0

\* C6: with no auth secret, or one that is not hex, or a token that cannot be
\* minted, the function returns an error and has dispatched nothing, polled
\* nothing and triggered no tick.
C6_FailFastWithoutSecret ==
    /\ (secret = NoSecret \/ ~IsHexSecret(secret[2]))
       => /\ log = <<>>
          /\ signature = "none"
          /\ tickCount = 0
          /\ pc \in {"start", "done"}
          /\ pc = "done" => (result.kind = "Err"
                             /\ result.why \in {"jwt_not_set", "mint_failed"})
    /\ result.why \in {"jwt_not_set", "mint_failed"}
       => (log = <<>> /\ tickCount = 0 /\ pc = "done")

C6_Witness ==
    /\ pc = "done"
    /\ secret = NoSecret
    /\ result = Returned("Err", "jwt_not_set", "none", 0)
    /\ max_retries > 0

\* C7: a failure of trigger_tick inside a polling attempt is retried: it is
\* the function's final error only when it happened in the last attempt of
\* the budget.
C7_TickFailureRetried ==
    (pc = "done" /\ result.why = "tick_failed") => result.attempts = max_retries

\* C8: every status poll, the first one included, is preceded by a
\* trigger_tick call of the same attempt.
C8_TickBeforeEveryPoll ==
    \A i \in DOMAIN log :
        log[i].ev = "poll"
        => \E j \in 1..(i - 1) : log[j].ev = "tick" /\ log[j].att = log[i].att

\* C9: when every call returns and the validator acknowledges the requests it
\* holds, the function reaches a terminal outcome, and it never issues more
\* than max_retries status polls.
C9_Termination ==
    /\ [](CountEv("poll") <= max_retries)
    /\ <>(pc = "done" /\ result.kind \in {"Ok", "Err"})

C9_Witness ==
    /\ pc = "done"
    /\ driver = "local"
    /\ result.why = "timeout"
    /\ max_retries = 3
    /\ tickCount = 3

\* C10: a trigger_tick call on the shared channel pair returns only by
\* consuming the completion the validator produced for its own request, also
\* when another call is in flight.
C10_OwnCompletion ==
    \A c \in Callers : lastDone[c] \in {"none", c}

\* requests caller c has put on the request channel so far: those the
\* validator took and those still queued
SentBy(c) == served[c] + Cardinality({i \in DOMAIN reqQ : reqQ[i] = c})

RECURSIVE SumReturned(_)
SumReturned(S) ==
    IF S = {} THEN 0
    ELSE LET c == CHOOSE x \in S : TRUE
         IN  returned[c] + SumReturned(S \ {c})

\* C11: every successful LocalTickClient::trigger_tick has sent exactly one
\* request and consumed exactly one completion when it returns; a driver
\* never has more than one request in flight, never sends twice in one call
\* and never returns Ok without a consumed completion.
C11_OneRequestOneCompletion ==
    /\ \A c \in LocalCallers :
          /\ SentBy(c) <= calls[c]
          /\ SentBy(c) - returned[c] \in {0, 1}
          /\ tpc[c] = "sent" => SentBy(c) = returned[c] + 1
          /\ tpc[c] = "ok" => (SentBy(c) = returned[c] /\ lastDone[c] # "none")
    /\ SumReturned(LocalCallers \cup {LoopCaller}) + Len(doneQ) <= tickCount

C11_Witness ==
    \E c \in LocalCallers :
        /\ tpc[c] = "ok"
        /\ calls[c] = 2
        /\ returned[c] = 2
        /\ SentBy(c) = 2

\* C12: while set_local_tick_channels has never been called, trigger_tick
\* returns the "not initialized" error, has sent nothing and never reaches
\* the blocking receive; once the channels are installed, a call that reads
\* the slot obtains them and goes on to the rendezvous.
C12_NotInitialized ==
    /\ [](~installed =>
            /\ \A i \in DOMAIN reqQ : reqQ[i] \notin LocalCallers
            /\ \A c \in LocalCallers :
                  /\ SentBy(c) = 0
                  /\ returned[c] = 0
                  /\ tpc[c] \notin {"have", "sent", "ok"}
                  /\ tpc[c] = "err" => tickErr[c] = "not_initialized")
    /\ [][\A c \in LocalCallers :
            (installed /\ tpc[c] = "locked" /\ tpc'[c] # "locked")
            => (tpc'[c] = "have" /\ tickErr'[c] = tickErr[c])]_vars

C12_Witness ==
    \E c \in LocalCallers :
        /\ tickErr[c] = "not_initialized"
        /\ calls[c] = 2
        /\ tpc[c] = "ok"
        /\ returned[c] = 1

\* the results of trigger_tick the retry loop has seen, in order
TickReturns == SelectSeq(log, LAMBDA e : e.ev = "tick_ret")

\* C13: the cross-process driver returns Ok(()) exactly for a tick response
\* with success = true; success = false and a transport failure are errors,
\* so a failed tick is never reported as Ok.
C13_IpcTickMapping ==
    driver = "ipc"
    => /\ Len(TickReturns) = Len(ipcResps)
       /\ \A k \in DOMAIN ipcResps :
             (TickReturns[k].res = "Ok") <=> (ipcResps[k] = "OkTrue")

C13_Witness ==
    /\ driver = "ipc"
    /\ Len(ipcResps) >= 2
    /\ ipcResps[1] = "OkTrue"
    /\ ipcResps[Len(ipcResps)] = "OkFalse"
    /\ TickReturns[Len(TickReturns)].res = "Err"

\* C14: trigger_tick holds no lock on the channel slot while it sends or
\* waits; a holder of the read guard never waits for anything before it
\* drops the guard, and with no guard held set_local_tick_channels completes,
\* also while a tick is in flight.
C14_NoLockWhileBlocked ==
    /\ \A c \in Callers : tpc[c] \in {"have", "sent"} => c \notin lockReaders
    /\ \A c \in lockReaders : tpc[c] = "locked" /\ ENABLED GetChannels(c)
    /\ lockReaders = {} => ENABLED SetLocalTickChannels

C14_Witness ==
    /\ installedInFlight
    /\ \E c \in LocalCallers : tpc[c] = "sent" /\ doneQ = <<>> /\ reqQ = <<c>>

Undecided == {"None", "QueryErr"}

\* position of a call in the handling of one transaction
Rank(e) ==
    CASE e = "fetch"    -> 1
      [] e = "sign"     -> 2
      [] e = "dispatch" -> 3
      [] e = "confirm"  -> 4

\* C15: when the confirmation of transaction i is an on-chain failure or a
\* timeout, that confirmation is the last call of the batch: the call returns
\* an error that names transaction i's signature and the kind of failure, and
\* no call for a later transaction exists.
C15_BatchAbort ==
    op = "batch"
    => \A i \in DOMAIN blog :
         (blog[i].ev = "confirm" /\ blog[i].res \in {"SomeErr", "None"})
         => /\ i = Len(blog)
            /\ \A j \in DOMAIN blog : blog[j].tx <= blog[i].tx
            /\ bpc \in {"match", "done"}
            /\ bpc = "done"
               => bresult = BReturned("Err",
                                      IF blog[i].res = "SomeErr" THEN "failed"
                                                                 ELSE "timeout",
                                      blog[i].tx)

C15_Witness ==
    /\ op = "batch"
    /\ Len(batch) = 3
    /\ bpc = "done"
    /\ bresult = BReturned("Err", "failed", 2)
    /\ \E i \in DOMAIN blog : blog[i] = BEvent("confirm", 1, "SomeOk")
    /\ \E i \in DOMAIN blog : blog[i] = BEvent("dispatch", 2, "sent")
    /\ \A i \in DOMAIN blog : blog[i].tx # 3

\* C16: the calls of a batch follow the input order without overlap: the
\* anchor fetch, signing, dispatch and confirmation of one transaction come in
\* this order, every call for transaction k+1 comes after a confirmation of
\* transaction k that returned success, and the batch returns Ok only when
\* every transaction has such a confirmation.
C16_InOrderNoOverlap ==
    op = "batch"
    => /\ \A i, j \in DOMAIN blog :
            i < j => \/ blog[i].tx < blog[j].tx
                     \/ /\ blog[i].tx = blog[j].tx
                        /\ Rank(blog[i].ev) < Rank(blog[j].ev)
       /\ \A j \in DOMAIN blog :
            blog[j].tx > 1
            => \E i \in 1..(j - 1) :
                 blog[i] = BEvent("confirm", blog[j].tx - 1, "SomeOk")
       /\ (bpc = "done" /\ bresult.kind = "Ok")
          => \A k \in 1..Len(batch) :
               \E i \in DOMAIN blog : blog[i] = BEvent("confirm", k, "SomeOk")

C16_Witness ==
    /\ op = "batch"
    /\ Len(batch) = 3
    /\ bpc = "done"
    /\ bresult.kind = "Ok"
    /\ Len(blog) = 12

\* C17: confirm_transaction returns the first decided status it observes;
\* every status seen before is a missing status or a query error, which
\* never end the call, and it returns None only after the deadline has
\* passed with no decided status seen.
C17_FirstDecidedStatus ==
    /\ cret = "running" => \A k \in DOMAIN polls : polls[k] \in Undecided
    /\ cret \in {"SomeOk", "SomeErr"}
       => /\ polls # <<>>
          /\ polls[Len(polls)] = cret
          /\ \A k \in 1..(Len(polls) - 1) : polls[k] \in Undecided
    /\ cret = "None"
       => /\ elapsed > ConfirmTimeout
          /\ \A k \in DOMAIN polls : polls[k] \in Undecided

C17_Witness ==
    /\ cret = "SomeOk"
    /\ polls = <<"QueryErr", "None", "SomeOk">>
    /\ bpc = "match"

\* C18: Bridge::transfer returns Ok(signature) exactly when the transaction
\* was handed to the dispatch transport successfully; a failed anchor fetch
\* and a failed dispatch both make it return an error.
C18_TransferReportsDispatchFailure ==
    (op = "transfer" /\ bpc = "done")
    => (bresult.kind = "Ok"
        <=> \E i \in DOMAIN blog : blog[i] = BEvent("dispatch", 1, "sent"))

\* C19: a batch submission always returns Ok or Err and never aborts its
\* thread, whatever the transactions and the signer set are.
C19_NeverAborts ==
    bpc # "panicked"

\* C20: with the client's end open, every request frame the server has read
\* to the end has exactly one Response, written before the next frame is
\* read, so the responses are in the order of the requests; only the request
\* being processed has none yet.
C20_OneResponsePerFrame ==
    clientOpen
    => /\ \A i \in DOMAIN outbound : outbound[i].to = i
       /\ Len(outbound) =
            IF ipos = "have_msg" \/ (ipos = "processing" /\ bpc # "panicked")
            THEN reqCount - 1
            ELSE reqCount

\* C21: a frame that declares more than the cap ends the connection with no
\* payload read, no handler invoked, nothing dispatched and no response, and
\* nothing happens on a closed connection afterwards; a frame of the cap or
\* less is read to the end unless the peer has gone before writing it all.
C21_OversizeRejected ==
    /\ [][(ipos = "have_len" /\ ipos' # "have_len")
          => IF msgLen > FrameCap
             THEN /\ conn' = "closed"
                  /\ reqCount' = reqCount
                  /\ outbound' = outbound
                  /\ msgBuf' = NoFrame
                  /\ bridgeVars' = bridgeVars
             ELSE \/ (reqCount' = reqCount + 1 /\ conn' = "open")
                  \/ (~clientOpen /\ conn' = "closed")]_vars
    /\ [][conn = "closed"
          => (reqCount' = reqCount /\ outbound' = outbound
              /\ bridgeVars' = bridgeVars)]_vars
    /\ [](conn = "closed" => (op = "none" /\ blog = <<>>))

C21_Witness ==
    /\ conn = "closed"
    /\ clientOpen
    /\ framesSent = 2
    /\ pending = 0
    /\ reqCount = 1
    /\ Len(outbound) = 1

\* C22: a payload within the cap that is no IpcMessage is answered with one
\* Response of success = false, starts no submission and leaves the
\* connection open and reading.
C22_MalformedPayload ==
    /\ [][(ipos = "have_msg" /\ msgBuf.kind = "garbage" /\ ipos' # "have_msg")
          => /\ conn' = "open"
             /\ ipos' = "read"
             /\ bridgeVars' = bridgeVars
             /\ outbound' = IF clientOpen
                            THEN Append(outbound, Response(reqCount, FALSE, "deser"))
                            ELSE outbound]_vars
    /\ [](\A i \in DOMAIN outbound :
            outbound[i].message = "deser" => ~outbound[i].success)

C22_Witness ==
    /\ conn = "open"
    /\ Len(outbound) = 2
    /\ outbound[1] = Response(1, FALSE, "deser")
    /\ outbound[2] = Response(2, TRUE, "processed")

\* C23: one call of IpcClient::send_batch_transactions writes one frame and
\* reads one response; it returns Ok with the success flag of that response,
\* which is true exactly when the server's submission returned Ok with every
\* transaction confirmed, and Err when it could not connect or the server
\* dropped the stream without a response.
C23_ClientRoundTrip ==
    /\ [](cpc \notin {"raw", "none"}
          => /\ framesSent <= 1
             /\ cresult \in {"OkTrue", "OkFalse"}
                => /\ framesSent = 1
                   /\ Len(outbound) = 1
                   /\ outbound[1].success = (cresult = "OkTrue")
             /\ cresult = "ErrConnect" => (framesSent = 0 /\ conn = "none")
             /\ cresult = "ErrTransport"
                => /\ framesSent = 1
                   /\ outbound = <<>>
                   /\ conn \in {"closed", "aborted"}
             /\ cpc = "returned" <=> cresult # "none")
    /\ [][(ipos = "processing" /\ ipos' = "read" /\ clientOpen)
          => (outbound'[Len(outbound')].success
              <=> /\ bresult.kind = "Ok"
                  /\ \A k \in 1..Len(batch) :
                       \E i \in DOMAIN blog :
                         blog[i] = BEvent("confirm", k, "SomeOk"))]_vars

C23_Witness ==
    /\ cpc = "returned"
    /\ cresult = "OkTrue"
    /\ outbound = <<Response(1, TRUE, "processed")>>

\* C24: framing round trip. As stated: for every IpcMessage value, the frame
\* the writer produces is read back by the peer as the same value, and the
\* length prefix equals the number of payload bytes.
C24_RoundTripEveryMessage ==
    /\ fpc \notin {"parked", "start"} =>
           /\ fpc = "written" =>
                  FromLE(SubSeq(wire, 1, LenBytes)) = Len(wire) - LenBytes
           /\ fpc \notin {"rejected", "starved"}
    /\ fpc = "done" => decoded = [ok |-> TRUE, value |-> frameMsg]

\* C24, amended: the round trip holds for every IpcMessage value whose
\* serialized length is within what the reading peer accepts (the server's
\* cap for a request, the range of the u32 prefix for a response): the
\* prefix equals the number of payload bytes, the reader reads the payload
\* to its end and deserializes the value written; and a frame is refused
\* or misread only when its message is longer than that.
C24_RoundTripWithinCap ==
    LET n == Len(Serialize(frameMsg))
    IN  /\ (fpc \notin {"parked", "start"} /\ n <= ReaderCap(frameDir)) =>
               /\ fpc = "written" =>
                      /\ FromLE(SubSeq(wire, 1, LenBytes)) = n
                      /\ Len(wire) = LenBytes + n
               /\ fpc \notin {"rejected", "starved"}
               /\ fpc \in {"have_body", "done"} =>
                      body = Serialize(frameMsg) /\ wire = <<>>
               /\ fpc = "done" => decoded = [ok |-> TRUE, value |-> frameMsg]
        /\ fpc = "rejected" => (frameDir = "to_server" /\ n > FrameCap)

\* a request of exactly the cap's length has been read back by the server
C24_Witness ==
    /\ fpc = "done"
    /\ frameDir = "to_server"
    /\ Len(Serialize(frameMsg)) = FrameCap
    /\ frameMsg.transactions # <<>>
    /\ decoded = [ok |-> TRUE, value |-> frameMsg]

\* C25: start removes whatever removable file is at the socket path before
\* it binds, an absent file is no error, and a successful bind leaves the
\* instance's own socket at the path; after stop or drop of an instance that
\* has bound, nothing is at the path.
C25_StaleRemovedThenGone ==
    [][\A s \in Servers :
          /\ (sockLast'.op = "remove" /\ sockLast'.server = s) =>
                 /\ found'[s] = sockFile
                 /\ sockFile # "dir" =>
                        (sockFile' = "absent" /\ srv'[s] = "binding")
          /\ (srv[s] = "binding" /\ srv'[s] = "listening") =>
                 /\ sockFile = "absent"
                 /\ sockFile' = s
                 /\ bound'[s]
          /\ (bound[s] /\ sockLast'.server = s
                  /\ sockLast'.op \in {"stop", "drop"}) =>
                 /\ sockFile' = "absent"
                 /\ srv'[s] \in {"stopped", "dropped"}]_vars

\* an instance that found a stale file at start has listened and has been
\* stopped, and nothing is at the path
C25_Witness ==
    \E s \in Servers :
        /\ found[s] = "stale"
        /\ bound[s]
        /\ srv[s] = "stopped"
        /\ sockLast = [op |-> "stop", server |-> s, before |-> s]
        /\ sockFile = "absent"

\* C26: on shutdown an instance removes only its own socket file: a stop or
\* drop of an instance whose socket is not the file at the path (it never
\* bound, or another instance has replaced its file) leaves the path as
\* it was.
C26_RemovesOnlyOwnFile ==
    [][\A s \in Servers :
          (sockLast'.server = s /\ sockLast'.op \in {"stop", "drop"}
               /\ sockLast'.before # s) =>
              sockFile' = sockLast'.before]_vars

\* every program-id index and every account reference of every instruction
\* is within the account table
AllIndicesInRange(tx) ==
    \A i \in DOMAIN tx.instructions :
        /\ tx.instructions[i].program_id_index < Len(tx.account_keys)
        /\ \A j \in DOMAIN tx.instructions[i].accounts :
               tx.instructions[i].accounts[j] < Len(tx.account_keys)

\* a text that is an address: AddrLen hex characters, or "0x" and AddrLen
\* hex characters
IsAddress(t) ==
    \/ Len(t) = AddrLen /\ AllHex(t)
    \/ Len(t) = AddrLen + 2 /\ StartsWith0x(t) /\ AllHex(SubSeq(t, 3, Len(t)))

\* the pattern of a transfer with a memo, for a transaction whose indices
\* are in range; memo is the text the address is looked for in
HasPattern(tx, memo) ==
    /\ Len(tx.instructions) = 2
    /\ KeyAt(tx.account_keys, tx.instructions[1].program_id_index)
           = SystemProgram
    /\ DecodeTransfer(tx.instructions[1].data).ok
    /\ Len(tx.instructions[1].accounts) = 2
    /\ KeyAt(tx.account_keys, tx.instructions[2].program_id_index)
           = MemoProgram
    /\ IsAddress(memo)

MemoOf(tx) ==
    IF Len(tx.instructions) >= 2 THEN tx.instructions[2].data ELSE <<>>

\* C27: no match, never an error, for a transaction with all indices in
\* range that differs from the pattern. As stated: the memo payload itself
\* has to be an address.
C27_NoMatchWhenDifferent ==
    (xpc = "parsed" /\ AllIndicesInRange(txIn)) =>
        /\ parsed.kind # "Err"
        /\ ~HasPattern(txIn, MemoOf(txIn)) => parsed = OkNone

\* C27, amended: parse_transfer_transaction returns an error for no
\* transaction whose indices are all in range, and returns no match for
\* every such transaction that differs from the pattern, where the memo
\* payload counts as an address when it is one after the white space around
\* it is removed; every other transaction with indices in range is a match.
C27_NoMatchWhenDifferentTrimmed ==
    (xpc = "parsed" /\ AllIndicesInRange(txIn)) =>
        /\ parsed.kind # "Err"
        /\ ~HasPattern(txIn, Trim(MemoOf(txIn))) => parsed = OkNone
        /\ HasPattern(txIn, Trim(MemoOf(txIn))) => parsed.kind = "Some"

\* a transfer followed by a memo that is not UTF-8 has been parsed as no
\* match
C27_Witness ==
    /\ xpc = "parsed"
    /\ args = NoArgs
    /\ AllIndicesInRange(txIn)
    /\ Len(txIn.instructions) = 2
    /\ HasPattern(txIn, Prefix0x \o HexText(AddrLen, 1, 1))
    /\ \E i \in DOMAIN MemoOf(txIn) : MemoOf(txIn)[i] = NotUtf8
    /\ parsed = OkNone

\* C28: an account index out of range is an error, whatever else the
\* transaction holds.
C28_OutOfRangeIsError ==
    (xpc = "parsed" /\ ~AllIndicesInRange(txIn)) => parsed.kind = "Err"

\* the address create_transfer_with_evm_memo is expected to write
Normalized(a) == IF StartsWith0x(a) THEN a ELSE Prefix0x \o a

\* C29: for every signer, destination, amount and address (with or without
\* "0x"), create_transfer_with_evm_memo returns a transaction, and
\* parse_transfer_transaction applied to it returns the signer, the
\* destination, the amount and the address with its "0x" prefix, each
\* character as it was given.
C29_BuildParseRoundTrip ==
    (args # NoArgs /\ IsAddress(args.address)) =>
        /\ xpc # "create_err"
        /\ xpc \in {"parse", "parsed"} =>
               /\ created.ok
               /\ txIn = created.tx
               /\ AllIndicesInRange(txIn)
        /\ xpc = "parsed" =>
               parsed = OkSome(args.from, args.to, args.amount,
                               Normalized(args.address))

\* a transfer of a wallet to itself with an address of mixed case and no
\* prefix has been built and parsed
C29_Witness ==
    /\ xpc = "parsed"
    /\ args # NoArgs
    /\ args.to = args.from
    /\ args.amount = MaxAmount
    /\ args.address = HexText(AddrLen, 0, 1)
    /\ parsed.kind = "Some"
    /\ parsed.address = Prefix0x \o HexText(AddrLen, 0, 1)
    /\ parsed.to = args.from

\* C30: create_transfer_with_evm_memo returns the error "Invalid EVM address
\* format" for every address that is not AddrLen hex characters with or
\* without "0x", so that the parser matches every transaction it returns.
C30_AddressValidatedFirst ==
    args # NoArgs =>
        /\ (xpc # "create" /\ ~IsAddress(args.address)) =>
               /\ xpc = "create_err"
               /\ created = CreateErr("Invalid EVM address format")
        /\ xpc = "parsed" => parsed.kind = "Some"

\* C31: a match only for a memo payload that is exactly an address. As
\* stated: the payload itself, with no other byte in it, is AddrLen hex
\* characters with or without "0x", and the address returned is "0x" and
\* those characters.
C31_MatchOnlyExactAddress ==
    (xpc = "parsed" /\ parsed.kind = "Some") =>
        /\ IsAddress(MemoOf(txIn))
        /\ parsed.address = Normalized(MemoOf(txIn))

\* C31, amended: parse_transfer_transaction returns a match only if the
\* memo payload is UTF-8 and, with the white space around it removed, is
\* exactly an address of AddrLen hex characters with or without "0x"; the
\* address it returns is "0x" followed by exactly those hex characters.
C31_MatchOnlyTrimmedAddress ==
    (xpc = "parsed" /\ parsed.kind = "Some") =>
        LET memo == MemoOf(txIn)
        IN  /\ \A i \in DOMAIN memo : memo[i] # NotUtf8
            /\ IsAddress(Trim(memo))
            /\ parsed.address = Normalized(Trim(memo))
            /\ Len(parsed.address) = AddrLen + 2
            /\ StartsWith0x(parsed.address)
            /\ AllHex(SubSeq(parsed.address, 3, AddrLen + 2))

\* a memo that is an address with white space around it has been matched
C31_Witness ==
    /\ xpc = "parsed"
    /\ parsed.kind = "Some"
    /\ MemoOf(txIn) = <<Space>> \o Prefix0x \o HexText(AddrLen, 1, 1)
                          \o <<Space>>
    /\ parsed.address = Prefix0x \o HexText(AddrLen, 1, 1)

\* C32: the token a call submits is signed with the secret of its
\* jwt_secret argument, and a call whose argument is valid hex mints a
\* token (the clock being at or after the epoch).
C32_TokenFromArgument ==
    /\ apc \in {"minted", "polling"} =>
           /\ HexDecode(aarg).ok
           /\ atoken.key = HexDecode(aarg).bytes
    /\ (apc = "idle" /\ acall > 0 /\ HexDecode(aarg).ok /\ aclock >= 0) =>
           aresult \notin {"jwt_not_set", "mint_failed"}

\* C33: every submission carries a token minted in its own call, none is
\* used twice; its claims are issued_at = the unix time at minting and
\* expires_at = issued_at + 3600; with a secret that is not hex no token is
\* minted and the call returns an error.
C33_FreshTokenPerSubmission ==
    /\ Len(submissions) = amints - (IF apc = "minted" THEN 1 ELSE 0)
    /\ amints <= acall
    /\ \A i \in DOMAIN submissions :
           LET e == submissions[i]
           IN  /\ e.token.ok
               /\ e.token.iat >= 0
               /\ e.token.iat <= e.at
               /\ e.token.exp = e.token.iat + TokenLifetime
               /\ \A j \in DOMAIN submissions : j # i => submissions[j].call # e.call
               /\ i > 1 => e.token.iat >= submissions[i - 1].at
    /\ apc = "minted" =>
           /\ atoken.iat <= aclock
           /\ atoken.exp = atoken.iat + TokenLifetime
           /\ submissions # <<>> =>
                  atoken.iat >= submissions[Len(submissions)].at
    /\ [][apc = "entered" /\ apc' = "minted" =>
              /\ atoken'.iat = aclock
              /\ atoken'.key = HexDecode(asecret[2]).bytes]_vars
    /\ (asecret # NoSecret /\ ~HexDecode(asecret[2]).ok) =>
           /\ amints = 0
           /\ submissions = <<>>
           /\ (apc = "idle" /\ acall > 0) => aresult = "mint_failed"

\* two calls have each submitted a token of their own, minted at different
\* times
C33_Witness ==
    /\ Len(submissions) = 2
    /\ submissions[1].call = 1
    /\ submissions[2].call = 2
    /\ submissions[1].token.iat = 0
    /\ submissions[2].token.iat = MaxClock
    /\ submissions[2].token.exp = MaxClock + TokenLifetime

\* C34: in deserialize_and_collect_packets, passed_sigverify_count plus
\* failed_sigverify_count is the number of packets in the batches,
\* failed_sigverify_count is the number of packets marked discard, and every
\* packet not marked discard is either in deserialized_packets or counted in
\* one error counter: deserialized_packets.len() plus the error counters is
\* passed_sigverify_count
ErrorCounters(stats) ==
    stats.failed_sanitization_count + stats.failed_prioritization_count
        + stats.invalid_vote_count + stats.excessive_precompile_count
        + stats.insufficient_compute_limit_count

C34_PacketAccounting ==
    /\ packet_stats.passed_sigverify_count
           + packet_stats.failed_sigverify_count = pktTotal
    /\ packet_stats.failed_sigverify_count = pktDiscarded
    /\ Len(deserialized_packets) + ErrorCounters(packet_stats)
           = packet_stats.passed_sigverify_count
    /\ Len(deserialized_packets) = pktGood
    /\ \A i \in 1 .. Len(deserialized_packets) :
           deserialized_packets[i] = GoodPacket

C34_Witness ==
    /\ pktpc = "returned"
    /\ pktDiscarded > 0
    /\ deserialized_packets # <<>>
    /\ packet_stats.invalid_vote_count > 0
    /\ packet_stats.excessive_precompile_count > 0

\* C38: on the shared channel pair, whatever the interleaving of the
\* trigger_tick callers, the control server and the validator: the
\* trigger_tick calls that have returned Ok are at most the completions the
\* validator has produced, which are at most the requests sent; a call
\* returns Ok only in the step that takes one completion off the channel, and
\* a completion taken off the channel is taken by one caller only
RECURSIVE SumSent(_)
SumSent(S) ==
    IF S = {} THEN 0
    ELSE LET c == CHOOSE x \in S : TRUE
         IN  SentBy(c) + SumSent(S \ {c})

C38_TickAccounting ==
    /\ [](SumReturned(LocalCallers) <= tickCount)
    /\ [](tickCount <= SumSent(Callers))
    /\ [][/\ \A c \in LocalCallers :
                 returned'[c] # returned[c] =>
                     /\ returned'[c] = returned[c] + 1
                     /\ doneQ # <<>>
                     /\ doneQ' = Tail(doneQ)
                     /\ tpc'[c] = "ok"
          /\ doneQ' # doneQ /\ Len(doneQ') <= Len(doneQ) =>
                 /\ doneQ' = Tail(doneQ)
                 /\ Cardinality({c \in Callers : tpc'[c] # tpc[c]}) = 1
                 /\ \A c \in Callers :
                        tpc'[c] # tpc[c] => lastDone'[c] = Head(doneQ)]_vars

C38_Witness ==
    /\ returned["L1"] = 1
    /\ returned["L2"] = 1
    /\ lastDone["E1"] # "none"
    /\ tickCount = 3
    /\ reqQ # <<>>

\* C35: in the engine_send_and_confirm_tx handler a status poll that shows
\* the transaction rejected ends the handler: it answers with the rejection
\* at once, without another tick or poll, and never with "confirmation
\* timeout"
C35_RejectionTerminal ==
    eSawRejected => (epc = "answered" /\ eanswer = "rejected")

\* C36: the engine_send_and_confirm_tx handler answers a parameter that is
\* not base64 or not a transaction with invalid params before it has sent
\* any tick request: the clock has not advanced
C36_MalformedBeforeTick ==
    (epc = "answered" /\ eparam \in {"not_base64", "not_transaction"}) =>
        /\ eanswer \in {"invalid base64", "invalid tx encoding"}
        /\ esends = 0
        /\ tickCount = 0

\* C37: the control server answers engine_tick with "ok" only after one
\* request was sent and one completion received, engine_step_slot only after
\* ticks_per_slot such pairs, and never when the channel is disconnected and
\* no tick was processed
C37_OkOnlyAfterTicks ==
    (eanswer = "ok") =>
        LET n == IF emethod = "engine_tick" THEN 1 ELSE ticks_per_slot
        IN  /\ esends = n
            /\ esendOk = n
            /\ edone = n

\* C39: distribute_reward_to_account and distribute_reward_to_account_local,
\* given ticks and an RPC that go the same way, issue the same ticks and RPC
\* calls and return the same result; each stops with an error at the first
\* tick that does not succeed, a tick answered with success = false
\* included, and issues no reward RPC after it
FirstFailedTick ==
    IF \E k \in 1 .. 4 : rwTicks[k] # "OkTrue"
    THEN CHOOSE k \in 1 .. 4 :
             /\ rwTicks[k] # "OkTrue"
             /\ \A j \in 1 .. k - 1 : rwTicks[j] = "OkTrue"
    ELSE 0

C39_RewardVariantsEquivalent ==
    /\ (\A v \in Drivers : rwpc[v] = "done") =>
           /\ rwEvents["ipc"] = rwEvents["local"]
           /\ rwResult["ipc"] = rwResult["local"]
    /\ \A v \in Drivers :
           (FirstFailedTick \in 1 .. 2) =>
               \A i \in 1 .. Len(rwEvents[v]) : rwEvents[v][i] # "reward_rpc"
    /\ \A v \in Drivers :
           rwResult[v] = "Ok" => FirstFailedTick = 0

\* C40: confirm_transaction and send_and_confirm_transactions_sequentially
\* never request a tick. Against a validator that ticks on request only and
\* with nobody else requesting ticks, confirm_transaction of a dispatched
\* transaction returns nothing but None, and a batch whose first transaction
\* was dispatched goes no further than that transaction and returns the
\* timeout error for it
HasDispatched ==
    \E i \in 1 .. Len(blog) : blog[i].ev = "dispatch"

C40_BridgeNeverTicks ==
    /\ [][(tickCount' # tickCount \/ reqQ' # reqQ) =>
              (tickIssuer /\ bridgeVars' = bridgeVars)]_vars
    /\ [](~tickIssuer =>
              /\ tickCount = 0
              /\ cret \in {"none", "running", "None"}
              /\ op = "batch" =>
                     /\ bidx <= 1
                     /\ bresult.kind # "Ok" \/ batch = <<>>
                     /\ (bpc = "done" /\ HasDispatched) =>
                            bresult = BReturned("Err", "timeout", 1))

C40_Witness ==
    /\ ~tickIssuer
    /\ op = "batch"
    /\ Len(batch) = 2
    /\ Len(polls) >= 2
    /\ mpending
    /\ bpc = "done"
    /\ bresult = BReturned("Err", "timeout", 1)

====
